---------------------------- MODULE Spec2Model ----------------------------
(***************************************************************************)
(* A model of hookforms (api/app): the Credential Guard (auth.py), the     *)
(* Rate Governor (middleware.py), the SSRF-safe fetcher (security.py) and  *)
(* the public receive path with the notification dispatcher                *)
(* (routers/webhooks.py, channels/dispatcher.py).                          *)
(*                                                                         *)
(* Each component has its own specification over the shared variables:     *)
(*   SpecAuth   get_current_key with the lockout counter                   *)
(*   SpecCred   get_current_key over a table of stored credentials         *)
(*   SpecRate   RateLimitMiddleware.dispatch                               *)
(*   SpecIP     _is_ip_blocked as a function of one address                *)
(*   SpecFetch  is_safe_url and SSRFSafeTransport over a changing DNS      *)
(*   SpecUrl    is_safe_url over written URLs                              *)
(*   SpecDispatch  dispatch_notifications over channel layouts             *)
(*   SpecHook   receive_webhook and dispatch_notifications                 *)
(*   SpecEmail  the email counters of both notification routes             *)
(*   SpecProvider  the provider table and resolve_email_provider           *)
(*   SpecScope  require_scope behind get_current_key                       *)
(*   SpecSize   RequestSizeLimitMiddleware behind the rate limiter         *)
(*   SpecFormat format_discord over payloads                               *)
(*   SpecInbox  create_inbox, update_inbox and delete_inbox                *)
(*   SpecRace   get_current_key calls interleaved at their awaits          *)
(*   SpecTtl    the INCR and EXPIRE calls of the counters, one at a time   *)
(*   SpecChannel  create_channel and the dispatcher over what it stored    *)
(*   SpecStack  a management request through both middlewares             *)
(*   SpecUpsert the email-provider endpoints as concurrent transactions    *)
(*   SpecMail   the credentials and service cache of app/mail.py           *)
(*   SpecRevoke revoke_key and get_current_key                             *)
(*   SpecDetect one pass of the dispatcher's loop per type and URL         *)
(* A handler is one action; what it did is left in a result record         *)
(* (authRes, rateRes, ...) together with the ordered trace of its effects. *)
(* Time is counted in milliseconds.                                        *)
(***************************************************************************)
EXTENDS Integers, Sequences, FiniteSets, TLC

VARIABLES
    now,        \* the clock, in milliseconds
    storeUp,    \* whether the counter store (Redis) answers
    authFail,   \* counter store: auth_fail:{ip} -> [n, exp]
    apiKeys,    \* table api_keys: id -> row
    authRes,    \* what the last get_current_key call did
    failLog,    \* history: per address, the times of its failed verifications
    authCalls,  \* the get_current_key calls in flight, counted by position
    rlZset,     \* counter store: ratelimit:{ip} -> sorted set (member = score)
    rateRes,    \* what the last RateLimitMiddleware.dispatch call did
    reqLog,     \* history: per address, the times of its requests
    ipIn,       \* the address string handed to _is_ip_blocked
    ipOut,      \* its result
    dns,        \* hostname -> getaddrinfo answer
    safeRes,    \* what the last is_safe_url call did
    fetch,      \* the outbound request in flight through SSRFSafeTransport
    conns,      \* history: the connections the transport opened
    inbox,      \* table webhook_inboxes: the row of the one inbox
    channels,   \* table notification_channels: the rows of that inbox
    hookStore,  \* counter store: the email counters of that inbox
    events,     \* table webhook_events: the number of its rows
    hookRes,    \* what the last receive_webhook or dispatcher call did
    mailLog,    \* history: the email step of every event
    emailProviders, \* table email_providers: its rows
    settings    \* the legacy Gmail settings and whether the token file exists

envVars   == <<now, storeUp>>
authVars  == <<authFail, apiKeys, authRes, failLog, authCalls>>
rateVars  == <<rlZset, rateRes, reqLog>>
ipVars    == <<ipIn, ipOut>>
fetchVars == <<dns, safeRes, fetch, conns>>
hookVars  == <<inbox, channels, hookStore, events, hookRes, mailLog,
               emailProviders, settings>>
vars == <<now, storeUp, authFail, apiKeys, authRes, failLog, authCalls, rlZset,
          rateRes, reqLog, ipIn, ipOut, dns, safeRes, fetch, conns, inbox, channels,
          hookStore, events, hookRes, mailLog, emailProviders, settings>>

Idle == [op |-> "idle"]

MsPerSecond == 1000
Ms(seconds) == seconds * MsPerSecond

Max(a, b) == IF a >= b THEN a ELSE b

Rep(c, n) == [i \in 1..n |-> c]

(***************************************************************************)
(* The counter store.  A counter is [n, exp]: its value and the time it    *)
(* expires at; n = 0 is a key that does not exist, NoExpiry a key with no  *)
(* time to live.                                                           *)
(***************************************************************************)
NoExpiry == -1

NoCounter == [n |-> 0, exp |-> NoExpiry]

\* Redis drops a key at its deadline.
Expired(c, t) == c.n > 0 /\ c.exp # NoExpiry /\ t >= c.exp

Purge(c, t) == IF Expired(c, t) THEN NoCounter ELSE c

\* INCR: the new counter; a key that did not exist is created without expiry.
RedisIncr(c) == [c EXCEPT !.n = c.n + 1]

\* EXPIRE key seconds
RedisExpire(c, seconds, t) == [c EXCEPT !.exp = t + Ms(seconds)]


(***************************************************************************)
(* Credential Guard (auth.py).  A secret is a sequence of characters       *)
(* (positive numbers); the empty sequence is a missing X-API-Key header.   *)
(***************************************************************************)
Addrs == {"a1", "a2"}

_LOCKOUT_THRESHOLD == 10
_LOCKOUT_WINDOW == 300

PREFIX_LEN == 12

\* key_prefix IS NULL
NoPrefix == <<-1>>

\* last_used_at IS NULL
NeverUsed == -1

NoSecret == <<>>

\* settings.admin_api_key (config.py refuses to start with an empty one)
admin_api_key == Rep(9, PREFIX_LEN) \o <<9>>

\* The secrets of the stored credentials: A1 and A2 share their first 12
\* characters, B does not, Short has fewer than 12 characters.
SecretA1 == Rep(1, PREFIX_LEN) \o <<1>>
SecretA2 == Rep(1, PREFIX_LEN) \o <<2>>
SecretB == Rep(2, PREFIX_LEN) \o <<1>>
SecretShort == <<3, 3, 3>>

\* A secret no credential has, with the first 12 characters of A1 and A2.
WrongSecret == Rep(1, PREFIX_LEN) \o <<7>>

KeyIds == {"k1", "k2", "k3", "k4"}

SecretOf(id) ==
    CASE id = "k1" -> SecretA1
      [] id = "k2" -> SecretA2
      [] id = "k3" -> SecretB
      [] id = "k4" -> SecretShort

\* pbkdf2_sha256.hash: salted, so the hash is modelled by what verify accepts.
hash_key(key) == [alg |-> "pbkdf2_sha256", of |-> key]

verify_key(key, key_hash) == key_hash.of = key

\* api_key[:12] if len(api_key) >= 12 else api_key
KeyPrefix(api_key) ==
    IF Len(api_key) >= PREFIX_LEN THEN SubSeq(api_key, 1, PREFIX_LEN) ELSE api_key

\* A row of api_keys as create_key writes it (prefixed) or as it was written
\* before the prefix column existed (legacy).
ApiKeyRow(id, prefixed, active) ==
    [key_hash |-> hash_key(SecretOf(id)),
     key_prefix |-> IF prefixed THEN KeyPrefix(SecretOf(id)) ELSE NoPrefix,
     is_active |-> active,
     last_used_at |-> NeverUsed]

\* The comparison off by one: the lockout starts one failure late.
_check_lockout_late(counter, up, t) ==
    /\ up
    /\ Purge(counter, t).n > _LOCKOUT_THRESHOLD

\* The lockout check refusing when the store does not answer.
_check_lockout_closed(counter, up, t) ==
    \/ ~up
    \/ Purge(counter, t).n >= _LOCKOUT_THRESHOLD

\* redis GET auth_fail:{ip}, then `count and int(count) >= 10`: TRUE when
\* the call raises 429.  A store that does not answer raises, and the
\* exception is swallowed.
_check_lockout(counter, up, t) ==
    /\ up
    /\ Purge(counter, t).n >= _LOCKOUT_THRESHOLD

\* INCR, and EXPIRE only when the INCR returned 1.
_record_failure(counter, up, t) ==
    IF ~up THEN counter
    ELSE LET c1 == RedisIncr(Purge(counter, t))
         IN IF c1.n = 1 THEN RedisExpire(c1, _LOCKOUT_WINDOW, t) ELSE c1

\* The counter left as it is on a success.
_clear_failure_kept(counter, up) == counter

\* DEL auth_fail:{ip}
_clear_failure(counter, up) == IF up THEN NoCounter ELSE counter

\* The prefix query without its is_active condition.
KeysByPrefix_any(rows, key_prefix) ==
    {id \in DOMAIN rows : rows[id].key_prefix = key_prefix}

\* select(ApiKey).where(is_active, key_prefix == key_prefix)
KeysByPrefix(rows, key_prefix) ==
    {id \in DOMAIN rows : rows[id].is_active /\ rows[id].key_prefix = key_prefix}

\* select(ApiKey).where(is_active, key_prefix IS NULL)
KeysWithoutPrefix(rows) ==
    {id \in DOMAIN rows : rows[id].is_active /\ rows[id].key_prefix = NoPrefix}

\* The rows the loop verifies the secret against: the second query runs only
\* when the first one returned nothing.
Candidates(rows, api_key) ==
    IF KeysByPrefix(rows, KeyPrefix(api_key)) # {}
    THEN KeysByPrefix(rows, KeyPrefix(api_key))
    ELSE KeysWithoutPrefix(rows)

\* update(ApiKey).values(last_used_at=now [, key_prefix=key_prefix])
TouchKey(row, api_key, t) ==
    [row EXCEPT !.last_used_at = t,
                !.key_prefix = IF row.key_prefix = NoPrefix \/ row.key_prefix = <<>>
                               THEN KeyPrefix(api_key) ELSE @]

\* get_current_key with the refused attempt of a locked-out address counted
\* as a failure.
get_current_key_counting(ip, api_key, counters, rows, up, t) ==
    LET matching == {id \in Candidates(rows, api_key) :
                        verify_key(api_key, rows[id].key_hash)}
        db_key == CHOOSE id \in matching : TRUE
        base == [status |-> 401, identity |-> "none", adminCompared |-> FALSE,
                 candidates |-> {}, counters |-> counters, rows |-> rows]
    IN  IF api_key = NoSecret THEN base
        ELSE IF _check_lockout(counters[ip], up, t)
        THEN [base EXCEPT !.status = 429,
                          !.counters = [counters EXCEPT ![ip] = _record_failure(@, up, t)]]
        ELSE IF api_key = admin_api_key
        THEN [base EXCEPT !.status = 200, !.identity = "admin",
                          !.adminCompared = TRUE,
                          !.counters = [counters EXCEPT ![ip] = _clear_failure(@, up)]]
        ELSE IF matching # {}
        THEN [base EXCEPT !.status = 200, !.identity = db_key,
                          !.adminCompared = TRUE,
                          !.candidates = Candidates(rows, api_key),
                          !.counters = [counters EXCEPT ![ip] = _clear_failure(@, up)],
                          !.rows = [rows EXCEPT ![db_key] = TouchKey(@, api_key, t)]]
        ELSE [base EXCEPT !.adminCompared = TRUE,
                          !.candidates = Candidates(rows, api_key),
                          !.counters = [counters EXCEPT ![ip] = _record_failure(@, up, t)]]

\* get_current_key: the response and the state it leaves.
get_current_key(ip, api_key, counters, rows, up, t) ==
    LET matching == {id \in Candidates(rows, api_key) :
                        verify_key(api_key, rows[id].key_hash)}
        db_key == CHOOSE id \in matching : TRUE
        base == [status |-> 401, identity |-> "none", adminCompared |-> FALSE,
                 candidates |-> {}, counters |-> counters, rows |-> rows]
    IN  IF api_key = NoSecret THEN base
        ELSE IF _check_lockout(counters[ip], up, t)
        THEN [base EXCEPT !.status = 429]
        ELSE IF api_key = admin_api_key
        THEN [base EXCEPT !.status = 200, !.identity = "admin",
                          !.adminCompared = TRUE,
                          !.counters = [counters EXCEPT ![ip] = _clear_failure(@, up)]]
        ELSE IF matching # {}
        THEN [base EXCEPT !.status = 200, !.identity = db_key,
                          !.adminCompared = TRUE,
                          !.candidates = Candidates(rows, api_key),
                          !.counters = [counters EXCEPT ![ip] = _clear_failure(@, up)],
                          !.rows = [rows EXCEPT ![db_key] = TouchKey(@, api_key, t)]]
        ELSE [base EXCEPT !.adminCompared = TRUE,
                          !.candidates = Candidates(rows, api_key),
                          !.counters = [counters EXCEPT ![ip] = _record_failure(@, up, t)]]

(***************************************************************************)
(* Rate Governor (middleware.py).  The sorted set ratelimit:{ip} holds one *)
(* member per distinct clock reading: the member is the text of the        *)
(* reading and its score the reading itself, so the set of scores is the   *)
(* sorted set.                                                             *)
(***************************************************************************)
WINDOW_SECONDS == 60
LIMIT == 100

HealthPath == "/health"

NoZset == [z |-> {}, exp |-> NoExpiry]

\* Redis drops the sorted set at its deadline.
PurgeZset(zs, t) == IF zs.exp # NoExpiry /\ t >= zs.exp THEN NoZset ELSE zs

\* ZREMRANGEBYSCORE key 0 window_start
zremrangebyscore(z, lo, hi) == {m \in z : ~(lo <= m /\ m <= hi)}

\* ZADD key {f"{now}": now}: a reading already in the set is the same member.
zadd(z, t) == z \cup {t}

\* The pipeline of dispatch: prune, count, add, expire.
RatePipeline(zs, t) ==
    LET pruned == zremrangebyscore(zs.z, 0, t - Ms(WINDOW_SECONDS))
    IN  [current_count |-> Cardinality(pruned),
         zs |-> [z |-> zadd(pruned, t), exp |-> t + Ms(WINDOW_SECONDS + 1)]]

\* Failing open: the request is passed on when the pipeline raises.
RateUnavailable_open(base) == [base EXCEPT !.pipeline = TRUE]

\* except Exception: the 503 response, call_next is not reached.
RateUnavailable(base) ==
    [base EXCEPT !.status = 503, !.reached = FALSE, !.pipeline = TRUE]

\* RateLimitMiddleware.dispatch: the response and the sorted sets it leaves.
\* status 200 stands for whatever the handler behind call_next answers.
RateLimitDispatch(ip, path, zsets, up, t) ==
    LET piped == RatePipeline(PurgeZset(zsets[ip], t), t)
        base == [status |-> 200, reached |-> TRUE, pipeline |-> FALSE,
                 current_count |-> -1, remaining |-> -1, reset_at |-> -1,
                 zsets |-> zsets]
    IN  IF path = HealthPath THEN base
        ELSE IF ~up
        THEN RateUnavailable(base)
        ELSE IF piped.current_count >= LIMIT
        THEN [base EXCEPT !.status = 429, !.reached = FALSE, !.pipeline = TRUE,
                          !.current_count = piped.current_count,
                          !.remaining = 0,
                          !.reset_at = t + Ms(WINDOW_SECONDS),
                          !.zsets = [zsets EXCEPT ![ip] = piped.zs]]
        ELSE [base EXCEPT !.pipeline = TRUE,
                          !.current_count = piped.current_count,
                          !.remaining = Max(0, LIMIT - piped.current_count - 1),
                          !.reset_at = t + Ms(WINDOW_SECONDS),
                          !.zsets = [zsets EXCEPT ![ip] = piped.zs]]

\* The requests of one address that lie in the trailing window.
RecentRequests(log, t) == SelectSeq(log, LAMBDA x : x > t - Ms(WINDOW_SECONDS))

\* One request through the middleware.
RateRequest(ip, path) ==
    LET r == RateLimitDispatch(ip, path, rlZset, storeUp, now)
        counted == path # HealthPath /\ storeUp
    IN  /\ rlZset' = r.zsets
        /\ reqLog' = [reqLog EXCEPT ![ip] = IF counted THEN Append(@, now) ELSE @]
        /\ rateRes' = [op |-> "rate", ip |-> ip, path |-> path, at |-> now,
                       up |-> storeUp, status |-> r.status, reached |-> r.reached,
                       pipeline |-> r.pipeline, changed |-> r.zsets # rlZset,
                       current_count |-> r.current_count,
                       remaining |-> r.remaining, reset_at |-> r.reset_at,
                       prior |-> Len(RecentRequests(reqLog[ip], now))]
        /\ UNCHANGED <<envVars, authVars, ipVars, fetchVars, hookVars>>

\* The failed verifications of one address that lie in the trailing window.
RecentFails(log, t) == SelectSeq(log, LAMBDA x : x > t - Ms(_LOCKOUT_WINDOW))

\* One call of get_current_key, as the dependency of a management endpoint.
Authenticate(ip, api_key) ==
    LET r == get_current_key(ip, api_key, authFail, apiKeys, storeUp, now)
        failed == r.status = 401 /\ r.adminCompared
    IN  /\ authFail' = r.counters
        /\ apiKeys' = r.rows
        /\ failLog' = [failLog EXCEPT ![ip] = IF failed THEN Append(@, now) ELSE @]
        /\ authRes' = [op |-> "auth", ip |-> ip, api_key |-> api_key, at |-> now,
                       status |-> r.status, identity |-> r.identity,
                       adminCompared |-> r.adminCompared,
                       candidates |-> r.candidates,
                       up |-> storeUp,
                       counterBefore |-> Purge(authFail[ip], now).n,
                       recentFails |-> Len(RecentFails(failLog[ip], now)),
                       rowsBefore |-> apiKeys]
        /\ UNCHANGED <<envVars, rateVars, ipVars, fetchVars, hookVars, authCalls>>

EMAIL_LIMIT == 10
EMAIL_WINDOW == 600

\* The clock moves on by d milliseconds; the counter store drops what expired.
AdvanceClock(d) ==
    /\ now' = now + d
    /\ authFail' = [ip \in Addrs |-> Purge(authFail[ip], now + d)]
    /\ failLog' = [ip \in Addrs |-> RecentFails(failLog[ip], now + d)]
    /\ rlZset' = [ip \in Addrs |-> PurgeZset(rlZset[ip], now + d)]
    /\ reqLog' = [ip \in Addrs |-> RecentRequests(reqLog[ip], now + d)]
    /\ hookStore' = [k \in DOMAIN hookStore |-> Purge(hookStore[k], now + d)]
    /\ UNCHANGED <<storeUp, apiKeys, authRes, authCalls, rateRes, ipVars,
                   fetchVars, inbox, channels, events, hookRes, mailLog, emailProviders,
                   settings>>

\* The counter store becomes unreachable, or reachable again.
StoreFlip ==
    /\ storeUp' = ~storeUp
    /\ UNCHANGED <<now, authVars, rateVars, ipVars, fetchVars, hookVars>>

(***************************************************************************)
(* Initial values of the parts a specification does not exercise.          *)
(***************************************************************************)
EnvInit == now = 0 /\ storeUp = TRUE

\* No call of get_current_key is under way.
NoCalls == [checked |-> 0, failed |-> 0]

AuthInit0 ==
    /\ authFail = [ip \in Addrs |-> NoCounter]
    /\ apiKeys = [id \in {"k3"} |-> ApiKeyRow(id, TRUE, TRUE)]
    /\ authRes = Idle
    /\ failLog = [ip \in Addrs |-> <<>>]
    /\ authCalls = NoCalls

RateInit0 ==
    /\ rlZset = [ip \in Addrs |-> [z |-> {}, exp |-> NoExpiry]]
    /\ rateRes = Idle
    /\ reqLog = [ip \in Addrs |-> <<>>]

IpInit0 == ipIn = <<>> /\ ipOut = Idle

FetchInit0 ==
    /\ dns = [h \in {<<"o", "k">>} |->
                [ok |-> TRUE, addrs |-> << <<"8", ".", "8", ".", "8", ".", "8">> >>]]
    /\ safeRes = Idle
    /\ fetch = Idle
    /\ conns = <<>>

\* No provider row, no legacy Gmail token.
ProviderInit0 ==
    /\ emailProviders = {}
    /\ settings = [gmail_token_exists |-> FALSE, gmail_sender_email |-> <<>>]

\* The keys of the two email counters of the inbox.
EmailRateKeys == {"channel_email_rate", "webhook_email_rate"}

HookInit0 ==
    /\ inbox = [is_active |-> FALSE]
    /\ channels = <<>>
    /\ hookStore = [k \in EmailRateKeys |-> NoCounter]
    /\ events = 0
    /\ hookRes = Idle
    /\ mailLog = <<>>
    /\ ProviderInit0

(***************************************************************************)
(* SpecAuth: the lockout.  One stored credential, the admin secret, a      *)
(* wrong secret and a missing one, presented from two addresses while the  *)
(* clock advances by whole windows and the counter store comes and goes.    *)
(***************************************************************************)
MaxFails == 11
MaxOtherFails == 1
AuthTicks == 2

AuthStep == Ms(_LOCKOUT_WINDOW)

PresentedAuth == {SecretB, admin_api_key, WrongSecret, NoSecret}

InitAuth == EnvInit /\ AuthInit0 /\ RateInit0 /\ IpInit0 /\ FetchInit0 /\ HookInit0

AuthAttempt ==
    \E ip \in Addrs, api_key \in PresentedAuth :
        /\ Authenticate(ip, api_key)
        /\ Len(failLog'[ip]) <= IF ip = "a1" THEN MaxFails ELSE MaxOtherFails

AuthTick ==
    /\ now < AuthTicks * AuthStep
    /\ AdvanceClock(AuthStep)

NextAuth == AuthAttempt \/ AuthTick \/ StoreFlip

SpecAuth == InitAuth /\ [][NextAuth]_vars

MaxCredFails == 2
CredTicks == 1

CredKinds ==
    {kind \in [{"k1", "k2", "k4"} -> {"absent", "legacy", "prefixed", "revoked"}] :
        /\ kind["k1"] \in {"legacy", "prefixed"}
        /\ kind["k4"] \in {"absent", "legacy"}}

CredTable(kind) ==
    [id \in {i \in DOMAIN kind : kind[i] # "absent"} |->
        ApiKeyRow(id, kind[id] # "legacy", kind[id] # "revoked")]

PresentedCred == {SecretA1, SecretA2, SecretShort, WrongSecret, admin_api_key}

InitCred ==
    /\ EnvInit /\ RateInit0 /\ IpInit0 /\ FetchInit0 /\ HookInit0
    /\ authFail = [ip \in Addrs |-> NoCounter]
    /\ apiKeys \in {CredTable(kind) : kind \in CredKinds}
    /\ authRes = Idle
    /\ failLog = [ip \in Addrs |-> <<>>]
    /\ authCalls = NoCalls

CredAttempt ==
    \E api_key \in PresentedCred :
        /\ Authenticate("a1", api_key)
        /\ Len(failLog'["a1"]) <= MaxCredFails

CredTick ==
    /\ now < CredTicks * AuthStep
    /\ AdvanceClock(AuthStep)

NextCred == CredAttempt \/ CredTick

SpecCred == InitCred /\ [][NextCred]_vars

\* The stored credentials a presented secret belongs to.
OwnersOf(rows, api_key) ==
    {id \in DOMAIN rows : rows[id].is_active /\ verify_key(api_key, rows[id].key_hash)}

(***************************************************************************)
(* C2: presenting the secret of an active stored credential, prefixed or   *)
(* legacy, from an address that is not locked out succeeds and returns     *)
(* that credential, sets its last-used time, stores the first 12           *)
(* characters of the secret as its prefix if it had none and leaves a      *)
(* stored prefix as it is, whatever other active credentials exist.        *)
(***************************************************************************)
C2_ValidCredential ==
    (authRes.op = "auth" /\ authRes.status # 429)
    => \A id \in OwnersOf(authRes.rowsBefore, authRes.api_key) :
          /\ authRes.status = 200
          /\ authRes.identity = id
          /\ apiKeys[id].last_used_at = authRes.at
          /\ apiKeys[id].key_prefix =
                IF authRes.rowsBefore[id].key_prefix = NoPrefix
                THEN KeyPrefix(authRes.api_key)
                ELSE authRes.rowsBefore[id].key_prefix

(***************************************************************************)
(* SpecRate: the sliding window.  Address a1 sends a burst, one request    *)
(* per clock reading (one millisecond apart); in the first EarlyMs         *)
(* readings a request may get the reading of the request before it, and    *)
(* address a2 may send requests too.  Once a1 has used up its limit the    *)
(* clock may jump by a whole window; the counter store comes and goes.     *)
(***************************************************************************)
MaxReq == 101
MaxOtherReq == 1
MaxSameStamp == 1
EarlyMs == 1
RateJumps == 1

Paths == {HealthPath, "/v1/hooks/inboxes"}

Range(seq) == {seq[i] : i \in DOMAIN seq}

\* The requests of a log that got the clock reading of an earlier request.
SameStamp(log) == Len(log) - Cardinality(Range(log))

InitRate == EnvInit /\ AuthInit0 /\ RateInit0 /\ IpInit0 /\ FetchInit0 /\ HookInit0

RateArrival ==
    \E ip \in Addrs, path \in Paths :
        /\ RateRequest(ip, path)
        /\ Len(reqLog'[ip]) <= IF ip = "a1" THEN MaxReq ELSE MaxOtherReq
        /\ now \in Range(reqLog[ip]) =>
              (now <= EarlyMs /\ SameStamp(reqLog[ip]) < MaxSameStamp)
        /\ ip = "a1" \/ now <= EarlyMs

\* The next clock reading, one millisecond after a request of a1.
RateTickShort ==
    /\ now \in Range(reqLog["a1"])
    /\ Len(reqLog["a1"]) < MaxReq
    /\ AdvanceClock(1)

\* A whole window passes without a request, once a1 has used up its limit.
RateTickLong ==
    /\ now < RateJumps * Ms(WINDOW_SECONDS)
    /\ Len(reqLog["a1"]) >= LIMIT
    /\ AdvanceClock(Ms(WINDOW_SECONDS))

NextRate == RateArrival \/ RateTickShort \/ RateTickLong \/ StoreFlip

SpecRate == InitRate /\ [][NextRate]_vars

(***************************************************************************)
(* C3: with the counter store reachable, a request of an address that has  *)
(* fewer than 100 earlier requests in the trailing 60 seconds is allowed   *)
(* (so the 100th is, and so is the first one after 60 silent seconds), and *)
(* one that has 100 or more (the 101st) is rejected with 429.              *)
(***************************************************************************)
C3_Window ==
    (rateRes.op = "rate" /\ rateRes.path # HealthPath /\ rateRes.up)
    => /\ rateRes.prior < LIMIT => (rateRes.status # 429 /\ rateRes.reached)
       /\ rateRes.prior >= LIMIT => (rateRes.status = 429 /\ ~rateRes.reached)

Digits == <<"0", "1", "2", "3", "4", "5", "6", "7", "8", "9">>
HexLetters == <<"a", "b", "c", "d", "e", "f">>
HexCapitals == <<"A", "B", "C", "D", "E", "F">>

IndexOf(seq, c) ==
    IF \E i \in 1..Len(seq) : seq[i] = c
    THEN CHOOSE i \in 1..Len(seq) : seq[i] = c
    ELSE 0

IsDigit(c) == IndexOf(Digits, c) > 0
IsHexDigit(c) ==
    IsDigit(c) \/ IndexOf(HexLetters, c) > 0 \/ IndexOf(HexCapitals, c) > 0

HexValue(c) ==
    IF IsDigit(c) THEN IndexOf(Digits, c) - 1
    ELSE IF IndexOf(HexLetters, c) > 0 THEN 9 + IndexOf(HexLetters, c)
    ELSE 9 + IndexOf(HexCapitals, c)

\* int(text) and int(text, 16) of text that holds only digits.
RECURSIVE ToInt(_, _)
ToInt(text, base) ==
    IF text = <<>> THEN 0
    ELSE ToInt(SubSeq(text, 1, Len(text) - 1), base) * base
         + HexValue(text[Len(text)])

\* str(n) and '%x' % n
RECURSIVE ToText(_, _)
ToText(n, base) ==
    LET d == n % base
        c == IF d < 10 THEN Digits[d + 1] ELSE HexLetters[d - 9]
    IN IF n < base THEN <<c>> ELSE ToText(n \div base, base) \o <<c>>

\* text.split(sep)
RECURSIVE Split(_, _)
Split(text, sep) ==
    IF \A i \in 1..Len(text) : text[i] # sep THEN <<text>>
    ELSE LET i == CHOOSE k \in 1..Len(text) :
                      text[k] = sep /\ \A j \in 1..(k - 1) : text[j] # sep
         IN <<SubSeq(text, 1, i - 1)>>
            \o Split(SubSeq(text, i + 1, Len(text)), sep)

Contains(text, c) == \E i \in 1..Len(text) : text[i] = c

RECURSIVE Pow2(_)
Pow2(n) == IF n = 0 THEN 1 ELSE 2 * Pow2(n - 1)

\* What ipaddress.ip_address raises ValueError for.
InvalidAddress == [version |-> 0, units |-> <<>>]

\* IPv4Address._parse_octet
ValidOctet(text) ==
    /\ text # <<>>
    /\ \A i \in 1..Len(text) : IsDigit(text[i])
    /\ Len(text) <= 3
    /\ (Len(text) > 1 => text[1] # "0")
    /\ ToInt(text, 10) <= 255

V4FromOctets(ok, octets) ==
    IF ok /\ Len(octets) = 4 /\ \A i \in 1..4 : ValidOctet(octets[i])
    THEN [version |-> 4, units |-> [i \in 1..4 |-> ToInt(octets[i], 10)]]
    ELSE InvalidAddress

\* ipaddress.IPv4Address(text): the four octets.
IPv4Address(text) == V4FromOctets(~Contains(text, "/"), Split(text, "."))

\* IPv6Address._parse_hextet
ValidHextet(text) ==
    /\ text # <<>>
    /\ Len(text) <= 4
    /\ \A i \in 1..Len(text) : IsHexDigit(text[i])

(***************************************************************************)
(* ipaddress.IPv6Address(text), in the steps of _ip_int_from_string.  ok   *)
(* carries the checks passed so far; parts are the texts between colons,   *)
(* n of them; parts_hi and parts_lo count the hextets before and after the *)
(* "::".                                                                   *)
(***************************************************************************)
V6Assemble(ok, parts, n, parts_hi, parts_lo) ==
    IF /\ ok
       /\ \A i \in (1..parts_hi) \cup ((n - parts_lo + 1)..n) :
              ValidHextet(parts[i])
    THEN [version |-> 6,
          units |-> [i \in 1..8 |->
              IF i <= parts_hi THEN ToInt(parts[i], 16)
              ELSE IF i <= 8 - parts_lo THEN 0
              ELSE ToInt(parts[n - 8 + i], 16)]]
    ELSE InvalidAddress

\* With a "::": a leading or trailing empty part must belong to it, and it
\* has to stand for at least one hextet.
V6Checked(ok, parts, n, parts_hi, parts_lo) ==
    V6Assemble(/\ ok
               /\ (parts[1] = <<>> => parts_hi = 0)
               /\ (parts[n] = <<>> => parts_lo = 0)
               /\ 8 - (parts_hi + parts_lo) >= 1,
               parts, n, parts_hi, parts_lo)

V6Compressed(ok, parts, n, skip_index) ==
    V6Checked(ok, parts, n,
              IF parts[1] = <<>> THEN skip_index - 2 ELSE skip_index - 1,
              IF parts[n] = <<>> THEN n - skip_index - 1 ELSE n - skip_index)

\* skips: the empty parts that are not at an end.
V6Skip(ok, parts, n, skips) ==
    IF skips = {}
    THEN V6Assemble(ok /\ n = 8 /\ parts[1] # <<>> /\ parts[n] # <<>>,
                    parts, n, n, 0)
    ELSE V6Compressed(ok /\ Cardinality(skips) = 1, parts, n,
                      CHOOSE i \in skips : TRUE)

V6Parts(ok, parts) ==
    V6Skip(ok /\ Len(parts) <= 9, parts, Len(parts),
           {i \in 2..(Len(parts) - 1) : parts[i] = <<>>})

\* An IPv4 suffix becomes two hextets.
V6Suffix(ok, raw, hasSuffix, suffix) ==
    V6Parts(ok /\ (hasSuffix => suffix.version = 4),
            IF hasSuffix /\ suffix.version = 4
            THEN SubSeq(raw, 1, Len(raw) - 1)
                 \o <<ToText(suffix.units[1] * 256 + suffix.units[2], 16),
                      ToText(suffix.units[3] * 256 + suffix.units[4], 16)>>
            ELSE raw)

V6Raw(ok, raw) ==
    V6Suffix(ok /\ Len(raw) >= 3, raw,
             Contains(raw[Len(raw)], "."), IPv4Address(raw[Len(raw)]))

\* _split_scope_id: a scope id after "%" is split off.
V6Scoped(ok, scoped) ==
    V6Raw(ok /\ (Len(scoped) = 1 \/ (Len(scoped) = 2 /\ scoped[2] # <<>>)),
          Split(scoped[1], ":"))

IPv6Address(text) == V6Scoped(~Contains(text, "/"), Split(text, "%"))

PreferV4(v4, text) == IF v4.version = 4 THEN v4 ELSE IPv6Address(text)

\* ipaddress.ip_address(text)
ip_address(text) == PreferV4(IPv4Address(text), text)

\* ipaddress.ip_network: network address and prefix length.
ip_network(version, units, prefixlen) ==
    [version |-> version, units |-> units, prefixlen |-> prefixlen]

UnitBits(version) == IF version = 4 THEN 8 ELSE 16

\* ip in network: same version and the same leading prefixlen bits.
InNetwork(ip, network) ==
    /\ ip.version = network.version
    /\ LET w == UnitBits(ip.version)
           full == network.prefixlen \div w
           rest == network.prefixlen % w
       IN /\ \A i \in 1..full : ip.units[i] = network.units[i]
          /\ rest > 0 =>
                ip.units[full + 1] \div Pow2(w - rest)
                    = network.units[full + 1] \div Pow2(w - rest)

\* fc00 and fe80 are 64512 and 65152.
_BLOCKED_NETWORKS ==
    << ip_network(4, <<10, 0, 0, 0>>, 8),
       ip_network(4, <<172, 16, 0, 0>>, 12),
       ip_network(4, <<192, 168, 0, 0>>, 16),
       ip_network(4, <<127, 0, 0, 0>>, 8),
       ip_network(4, <<169, 254, 0, 0>>, 16),
       ip_network(4, <<0, 0, 0, 0>>, 8),
       ip_network(6, <<0, 0, 0, 0, 0, 0, 0, 1>>, 128),
       ip_network(6, <<64512, 0, 0, 0, 0, 0, 0, 0>>, 7),
       ip_network(6, <<65152, 0, 0, 0, 0, 0, 0, 0>>, 10) >>

\* ip in one of the networks, or not an address at all.
BlockedAddress(ip) ==
    IF ip = InvalidAddress THEN TRUE
    ELSE \E k \in 1..Len(_BLOCKED_NETWORKS) : InNetwork(ip, _BLOCKED_NETWORKS[k])

\* _is_ip_blocked
_is_ip_blocked(ip_str) == BlockedAddress(ip_address(ip_str))

(***************************************************************************)
(*          Specification: the blocked-address predicate alone             *)
(***************************************************************************)
FormatV4(o) ==
    ToText(o[1], 10) \o <<".">> \o ToText(o[2], 10) \o <<".">>
    \o ToText(o[3], 10) \o <<".">> \o ToText(o[4], 10)

\* The uncompressed form h:0:0:0:0:0:m:l
FormatV6(h, m, l) ==
    ToText(h, 16) \o <<":", "0", ":", "0", ":", "0", ":", "0", ":", "0", ":">>
    \o ToText(m, 16) \o <<":">> \o ToText(l, 16)

\* Octets and hextets on both sides of the edges of the networks.
FirstOctets == {0, 1, 9, 10, 11, 126, 127, 128, 169, 172, 192, 255}
SecondOctets == {0, 15, 16, 31, 32, 168, 254}
LastOctets == {0, 1}
FirstHextets ==
    {0, 1, 8193, 64511, 64512, 65023, 65024, 65151, 65152, 65215, 65216}
LastHextets == {0, 1, 2}

V4Samples ==
    {FormatV4(<<a, b, 0, d>>) :
        a \in FirstOctets, b \in SecondOctets, d \in LastOctets}

V6Samples ==
    {FormatV6(h, m, l) : h \in FirstHextets, m \in {0, 1}, l \in LastHextets}

TextSamples ==
    { <<>>,
      <<":", ":">>,
      <<":", ":", "1">>,
      <<":", ":", "2">>,
      <<"f", "e", "8", "0", ":", ":", "1">>,
      <<"F", "E", "8", "0", ":", ":", "1">>,
      <<"f", "e", "8", "0", ":", ":", "1", "%", "e", "t", "h", "0">>,
      <<"f", "d", "a", "b", ":", ":", "1">>,
      <<":", ":", "f", "f", "f", "f", ":", "1", "2", "7", ".", "0", ".", "0", ".", "1">>,
      <<":", ":", "1", "2", "7", ".", "0", ".", "0", ".", "1">>,
      <<"2", "0", "0", "1", ":", "d", "b", "8", ":", ":", "1">>,
      <<"1", ":", ":", "2", ":", ":", "3">>,
      <<":", "1">>,
      <<"1", ":", "2", ":", "3", ":", "4", ":", "5", ":", "6", ":", "7", ":", ":">>,
      <<":", ":", ":">>,
      <<"f", "e", "8", "0", ":", ":", "1", "%">>,
      <<"1", "2", "3", "4", "5", ":", ":">>,
      <<"g", ":", ":", "1">>,
      <<":", ":", "1", "/", "1", "2", "8">>,
      <<"1", ".", "2", ".", "3">>,
      <<"2", "5", "6", ".", "0", ".", "0", ".", "1">>,
      <<"0", "1", ".", "2", ".", "3", ".", "4">>,
      <<"1", ".", "2", ".", "3", ".", "4", ".", "5">>,
      <<"1", "0", ".", "0", ".", "0", ".", "1", "/", "8">>,
      <<"1", "0", ".", "0", ".", "0", ".", "1", " ">>,
      <<"l", "o", "c", "a", "l", "h", "o", "s", "t">>,
      <<"1", ".", ".", "2", ".", "3">> }

IpSamples == V4Samples \cup V6Samples \cup TextSamples

\* The string _is_ip_blocked is going to be called with.
InitIP ==
    /\ EnvInit /\ AuthInit0 /\ RateInit0 /\ FetchInit0 /\ HookInit0
    /\ ipIn \in IpSamples
    /\ ipOut = Idle

\* One call of _is_ip_blocked.
IpCheck ==
    /\ ipOut = Idle
    /\ ipOut' = [op |-> "checked", blocked |-> _is_ip_blocked(ipIn)]
    /\ UNCHANGED <<envVars, authVars, rateVars, fetchVars, hookVars, ipIn>>

NextIP == IpCheck

SpecIP == InitIP /\ [][NextIP]_vars

\* The addresses the predicate is to reject: private, loopback, link-local
\* and unspecified ones of both families.
PrivateAddress(ip) ==
    \/ ip.version = 4 /\ ip.units[1] = 10
    \/ ip.version = 4 /\ ip.units[1] = 172 /\ ip.units[2] \in 16..31
    \/ ip.version = 4 /\ ip.units[1] = 192 /\ ip.units[2] = 168
    \/ ip.version = 6 /\ ip.units[1] \in 64512..65023

LoopbackAddress(ip) ==
    \/ ip.version = 4 /\ ip.units[1] = 127
    \/ ip.version = 6 /\ ip.units = <<0, 0, 0, 0, 0, 0, 0, 1>>

LinkLocalAddress(ip) ==
    \/ ip.version = 4 /\ ip.units[1] = 169 /\ ip.units[2] = 254
    \/ ip.version = 6 /\ ip.units[1] \in 65152..65215

UnspecifiedAddress(ip) ==
    \/ ip.version = 4 /\ ip.units[1] = 0
    \/ ip.version = 6 /\ ip.units = <<0, 0, 0, 0, 0, 0, 0, 0>>

(***************************************************************************)
(* C6: the blocked-address predicate rejects every private, loopback,      *)
(* link-local and unspecified address of IPv4 and of IPv6 (10.x, 127.x,    *)
(* 169.254.x, 0.x, ::1, fc00::/7, fe80::/10 and ::), and every string that *)
(* is not a valid address.                                                 *)
(***************************************************************************)
C6_BlockedPredicate ==
    ipOut.op = "checked" =>
        LET ip == ip_address(ipIn)
        IN (\/ ip = InvalidAddress
            \/ PrivateAddress(ip)
            \/ LoopbackAddress(ip)
            \/ LinkLocalAddress(ip)
            \/ UnspecifiedAddress(ip)) => ipOut.blocked

(***************************************************************************)
(*       Destination Guard: hostnames, resolution and is_safe_url          *)
(***************************************************************************)
Capitals ==
    <<"A", "B", "C", "D", "E", "F", "G", "H", "I", "J", "K", "L", "M",
      "N", "O", "P", "Q", "R", "S", "T", "U", "V", "W", "X", "Y", "Z">>
Smalls ==
    <<"a", "b", "c", "d", "e", "f", "g", "h", "i", "j", "k", "l", "m",
      "n", "o", "p", "q", "r", "s", "t", "u", "v", "w", "x", "y", "z">>

\* str.lower()
lower(text) ==
    [i \in 1..Len(text) |->
        IF IndexOf(Capitals, text[i]) > 0
        THEN Smalls[IndexOf(Capitals, text[i])]
        ELSE text[i]]

_BLOCKED_HOSTNAMES ==
    { <<"l", "o", "c", "a", "l", "h", "o", "s", "t">>,
      <<"p", "o", "s", "t", "g", "r", "e", "s">>,
      <<"r", "e", "d", "i", "s">>,
      <<"a", "p", "i">>,
      <<"w", "o", "r", "k", "e", "r">>,
      <<"c", "l", "o", "u", "d", "f", "l", "a", "r", "e", "d">>,
      <<"n", "g", "i", "n", "x">>,
      <<"m", "e", "t", "a", "d", "a", "t", "a">>,
      <<"m", "e", "t", "a", "d", "a", "t", "a", ".", "g", "o", "o", "g", "l", "e",
        ".", "i", "n", "t", "e", "r", "n", "a", "l">> }

\* socket.gaierror
gaierror == [ok |-> FALSE, addrs |-> <<>>]
Resolved(addrs) == [ok |-> TRUE, addrs |-> addrs]

\* socket.getaddrinfo: an address literal resolves to itself, a name to what
\* the resolver answers at this moment.
getaddrinfo(hostname, resolver) ==
    IF ip_address(hostname) # InvalidAddress THEN Resolved(<<hostname>>)
    ELSE IF hostname \in DOMAIN resolver THEN resolver[hostname]
    ELSE gaierror

\* The position of the first character of text that is in chars, or
\* Len(text) + 1.
FindFirst(text, chars) ==
    IF \E i \in 1..Len(text) : text[i] \in chars
    THEN CHOOSE i \in 1..Len(text) :
             text[i] \in chars /\ \A j \in 1..(i - 1) : text[j] \notin chars
    ELSE Len(text) + 1

FindLast(text, c) ==
    IF Contains(text, c)
    THEN CHOOSE i \in 1..Len(text) :
             text[i] = c /\ \A j \in (i + 1)..Len(text) : text[j] # c
    ELSE 0

IsAlpha(c) == IndexOf(Capitals, c) > 0 \/ IndexOf(Smalls, c) > 0
IsSchemeChar(c) == IsAlpha(c) \/ IsDigit(c) \/ c \in {"+", "-", "."}

\* text up to the first character that is in chars
UpTo(text, chars) == SubSeq(text, 1, FindFirst(text, chars) - 1)

\* text after position i
After(text, i) == SubSeq(text, i + 1, Len(text))

\* url[:colon] is a scheme
HasScheme(url, colon) ==
    /\ colon > 1
    /\ colon <= Len(url)
    /\ IsAlpha(url[1])
    /\ \A i \in 1..(colon - 1) : IsSchemeChar(url[i])

\* parsed.hostname: user information, port and brackets taken off the
\* netloc, lowercased; <<>> for None.
UrlHostname(hostinfo) ==
    lower(IF Contains(hostinfo, "[")
          THEN UpTo(After(hostinfo, FindFirst(hostinfo, {"["})), {"]"})
          ELSE UpTo(hostinfo, {":"}))

UrlNetloc(rest) ==
    IF Len(rest) >= 2 /\ rest[1] = "/" /\ rest[2] = "/"
    THEN UpTo(After(rest, 2), {"/", "?", "#"})
    ELSE <<>>

UrlHost(netloc) == UrlHostname(After(netloc, FindLast(netloc, "@")))

UrlSplit(url, colon) ==
    IF HasScheme(url, colon)
    THEN [scheme |-> lower(SubSeq(url, 1, colon - 1)),
          hostname |-> UrlHost(UrlNetloc(After(url, colon)))]
    ELSE [scheme |-> <<>>, hostname |-> UrlHost(UrlNetloc(url))]

\* urllib.parse.urlparse: the scheme (lowercased) and the hostname.
urlparse(url) == UrlSplit(url, FindFirst(url, {":"}))

http == <<"h", "t", "t", "p">>
https == <<"h", "t", "t", "p", "s">>

\* Every address of the answer is blocked.
AllBlocked(answer) ==
    \A i \in 1..Len(answer.addrs) : _is_ip_blocked(answer.addrs[i])

\* Some address of the answer is blocked.
AnyBlocked(answer) ==
    \E i \in 1..Len(answer.addrs) : _is_ip_blocked(answer.addrs[i])

\* The checks of is_safe_url in their order: the flag of the returned pair
\* and which check refused; answer keeps what the resolver said.
SafeChecks(scheme, hostname, addr_infos) ==
    IF scheme \notin {http, https}
    THEN [ok |-> FALSE, refused |-> "scheme", answer |-> addr_infos]
    ELSE IF hostname = <<>>
    THEN [ok |-> FALSE, refused |-> "no hostname", answer |-> addr_infos]
    ELSE IF lower(hostname) \in _BLOCKED_HOSTNAMES
    THEN [ok |-> FALSE, refused |-> "hostname", answer |-> addr_infos]
    ELSE IF ~addr_infos.ok
    THEN [ok |-> FALSE, refused |-> "resolve", answer |-> addr_infos]
    ELSE IF AnyBlocked(addr_infos)
    THEN [ok |-> FALSE, refused |-> "address", answer |-> addr_infos]
    ELSE [ok |-> TRUE, refused |-> "nothing", answer |-> addr_infos]

SafeParsed(parsed, resolver) ==
    SafeChecks(parsed.scheme, parsed.hostname,
               getaddrinfo(parsed.hostname, resolver))

is_safe_url(url, resolver) == SafeParsed(urlparse(url), resolver)

(***************************************************************************)
(*                 Specification: is_safe_url and the resolver             *)
(***************************************************************************)
PublicAddr == FormatV4(<<8, 8, 8, 8>>)
LoopbackAddr == FormatV4(<<127, 0, 0, 1>>)
PrivateAddr == FormatV4(<<10, 0, 0, 1>>)
UnspecifiedV6 == <<":", ":">>

\* The names the resolver knows and what it may answer for one of them.
ResolverNames == DOMAIN dns
DnsAnswers ==
    { gaierror,
      Resolved(<<PublicAddr>>),
      Resolved(<<LoopbackAddr>>),
      Resolved(<<PublicAddr, PrivateAddr>>),
      Resolved(<<UnspecifiedV6>>) }

\* The resolver's answer for a name changes.
DnsChange ==
    /\ \E h \in ResolverNames, a \in DnsAnswers :
          /\ dns[h] # a
          /\ dns' = [dns EXCEPT ![h] = a]
    /\ UNCHANGED <<envVars, authVars, rateVars, ipVars, hookVars,
                   safeRes, fetch, conns>>

\* The parts a URL is written from.
SchemesWritten ==
    { http, <<"H", "T", "T", "P", "S">>, <<"f", "t", "p">>, <<>> }
UserInfos == { <<>>, <<"u", ":", "p", "@">> }
Ports == { <<>>, <<":", "8", "0">> }
HostsWritten ==
    { <<"o", "k">>, <<"O", "k">>, <<"n", "x">>, <<>>,
      <<"L", "o", "c", "a", "l", "H", "o", "s", "t">>,
      <<"r", "e", "d", "i", "s">>,
      LoopbackAddr, PublicAddr,
      <<"[", ":", ":", "1", "]">> }

Url(scheme, userinfo, host, port) ==
    (IF scheme = <<>> THEN <<>> ELSE scheme \o <<":">>)
    \o <<"/", "/">> \o userinfo \o host \o port \o <<"/", "x">>

UrlSamples ==
    {Url(sc, <<>>, h, <<>>) : sc \in SchemesWritten, h \in HostsWritten}
    \cup {Url(http, u, h, p) :
            u \in UserInfos, p \in Ports, h \in {<<"o", "k">>, LoopbackAddr}}
    \cup {http \o <<":">> \o PublicAddr, <<>>}

\* The URL is_safe_url is going to be called with.
InitUrl ==
    /\ EnvInit /\ AuthInit0 /\ RateInit0 /\ IpInit0 /\ HookInit0
    /\ dns = [h \in {<<"o", "k">>} |-> Resolved(<<PublicAddr>>)]
    /\ safeRes \in {[op |-> "asked", url |-> url] : url \in UrlSamples}
    /\ fetch = Idle
    /\ conns = <<>>

SafeResult(url, result) ==
    [op |-> "is_safe_url", url |-> url, ok |-> result.ok,
     refused |-> result.refused, answer |-> result.answer]

\* One call of is_safe_url; the answer the resolver had for the URL's
\* hostname is kept with the result.
IsSafeUrlCall ==
    /\ safeRes.op = "asked"
    /\ safeRes' = SafeResult(safeRes.url, is_safe_url(safeRes.url, dns))
    /\ UNCHANGED <<envVars, authVars, rateVars, ipVars, hookVars,
                   dns, fetch, conns>>

NextUrl == IsSafeUrlCall \/ DnsChange

SpecUrl == InitUrl /\ [][NextUrl]_vars

(***************************************************************************)
(* C7: is_safe_url accepts a URL if and only if its scheme is http or      *)
(* https, it has a hostname that is not in the blocked-hostname set        *)
(* (compared without regard to case), the hostname resolves, and none of   *)
(* the resolved addresses is blocked; a URL whose host resolves to         *)
(* 127.0.0.1 is rejected although the hostname is not a blocked one.       *)
(***************************************************************************)
C7_SafeUrl ==
    safeRes.op = "is_safe_url" =>
        /\ safeRes.ok <=>
              /\ urlparse(safeRes.url).scheme \in {http, https}
              /\ urlparse(safeRes.url).hostname # <<>>
              /\ \A name \in _BLOCKED_HOSTNAMES :
                     lower(urlparse(safeRes.url).hostname) # lower(name)
              /\ safeRes.answer.ok
              /\ \A i \in 1..Len(safeRes.answer.addrs) :
                     ~_is_ip_blocked(safeRes.answer.addrs[i])
        /\ (\E i \in 1..Len(safeRes.answer.addrs) :
                safeRes.answer.addrs[i] = LoopbackAddr) => ~safeRes.ok

\* A URL with an allowed scheme and a hostname that is not a blocked one was
\* refused because the name resolved to 127.0.0.1.
C7_Witness ==
    /\ safeRes.op = "is_safe_url"
    /\ ~safeRes.ok
    /\ safeRes.refused = "address"
    /\ urlparse(safeRes.url).hostname \in ResolverNames
    /\ safeRes.answer = Resolved(<<LoopbackAddr>>)

(***************************************************************************)
(*      Specification: requests through SSRFSafeTransport, hop by hop      *)
(*                                                                         *)
(* The client made by safe_http_client follows redirects, and hands every  *)
(* request of the chain to SSRFSafeTransport.handle_async_request.  The    *)
(* handler resolves the name for its checks, and the connection made by    *)
(* the base transport resolves it once more.                               *)
(***************************************************************************)
MaxHops == 1

\* A resolution failure lets the request through.
TransportChecks_unresolved(hostname, addr_infos) ==
    IF hostname = <<>> THEN "pass"
    ELSE IF lower(hostname) \in _BLOCKED_HOSTNAMES THEN "blocked hostname"
    ELSE IF ~addr_infos.ok THEN "pass"
    ELSE IF AnyBlocked(addr_infos) THEN "blocked ip"
    ELSE "pass"

\* The checks of handle_async_request: which ConnectError is raised, or
\* "pass" when the request goes on to the base transport.
TransportChecks(hostname, addr_infos) ==
    IF hostname = <<>> THEN "pass"
    ELSE IF lower(hostname) \in _BLOCKED_HOSTNAMES THEN "blocked hostname"
    ELSE IF ~addr_infos.ok THEN "cannot resolve"
    ELSE IF AnyBlocked(addr_infos) THEN "blocked ip"
    ELSE "pass"

TransportVerdict(hostname, resolver) ==
    TransportChecks(hostname, getaddrinfo(hostname, resolver))

\* The hosts of the URLs requested and redirected to.
FetchHosts ==
    { <<"o", "k">>,
      <<"L", "o", "c", "a", "l", "H", "o", "s", "t">>,
      <<"r", "e", "d", "i", "s">>,
      LoopbackAddr, PublicAddr }

\* request.url.host of a hop
Hop(host, hops) ==
    [op |-> "fetch", pc |-> "request", host |-> lower(host), hops |-> hops,
     verdict |-> "none", seen |-> gaierror]

InitFetch == EnvInit /\ AuthInit0 /\ RateInit0 /\ IpInit0 /\ FetchInit0 /\ HookInit0

\* client.request(url): the first hop of a new request.
FetchStart ==
    /\ IF fetch.op = "idle" THEN TRUE ELSE fetch.pc \in {"done", "failed"}
    /\ \E host \in FetchHosts : fetch' = Hop(host, 0)
    /\ conns' = <<>>
    /\ UNCHANGED <<envVars, authVars, rateVars, ipVars, hookVars, dns, safeRes>>

\* The request after the checks; seen keeps what the resolver said.
Checked(request, verdict, seen) ==
    [request EXCEPT !.verdict = verdict,
                    !.seen = seen,
                    !.pc = IF verdict = "pass" THEN "connect" ELSE "failed"]

\* handle_async_request up to the call of the base transport.
TransportCheck ==
    /\ fetch.op = "fetch" /\ fetch.pc = "request"
    /\ fetch' = Checked(fetch, TransportVerdict(fetch.host, dns),
                        getaddrinfo(fetch.host, dns))
    /\ UNCHANGED <<envVars, authVars, rateVars, ipVars, hookVars, dns, safeRes,
                   conns>>

\* The connection is made to one of the addresses in target.
ConnectTo(target) ==
    IF ~target.ok
    THEN fetch' = [fetch EXCEPT !.pc = "failed"] /\ conns' = conns
    ELSE /\ fetch' = [fetch EXCEPT !.pc = "response"]
         /\ \E i \in 1..Len(target.addrs) :
               conns' = Append(conns, [hop |-> fetch.hops,
                                       host |-> fetch.host,
                                       seen |-> fetch.seen,
                                       addr |-> target.addrs[i]])

\* super().handle_async_request: the connection, to an address the name
\* resolves to now.
TransportConnect ==
    /\ fetch.op = "fetch" /\ fetch.pc = "connect"
    /\ ConnectTo(getaddrinfo(fetch.host, dns))
    /\ UNCHANGED <<envVars, authVars, rateVars, ipVars, hookVars, dns, safeRes>>

\* The server answers: a final response, or a redirect the client follows.
ServerRespond ==
    /\ fetch.op = "fetch" /\ fetch.pc = "response"
    /\ \/ fetch' = [fetch EXCEPT !.pc = "done"]
       \/ /\ fetch.hops < MaxHops
          /\ \E host \in FetchHosts : fetch' = Hop(host, fetch.hops + 1)
    /\ UNCHANGED <<envVars, authVars, rateVars, ipVars, hookVars, dns, safeRes,
                   conns>>

NextFetch ==
    FetchStart \/ TransportCheck \/ TransportConnect \/ ServerRespond
    \/ DnsChange

SpecFetch == InitFetch /\ [][NextFetch]_vars

\* What the checks are to refuse: a blocked hostname, a name that does not
\* resolve, a name with a blocked address among those it resolves to.
RefusedDestination(host, answer) ==
    \/ \E name \in _BLOCKED_HOSTNAMES : host = name
    \/ ~answer.ok
    \/ \E i \in 1..Len(answer.addrs) : _is_ip_blocked(answer.addrs[i])

(***************************************************************************)
(* C5: every request through the SSRF-safe fetcher, each hop of a redirect *)
(* chain included, is checked before a connection is attempted: a hop      *)
(* whose hostname is blocked, does not resolve, or resolves to at least    *)
(* one blocked address is never connected to, and the request fails.       *)
(***************************************************************************)
C5_EveryHopChecked ==
    /\ \A i \in 1..Len(conns) :
          ~RefusedDestination(conns[i].host, conns[i].seen)
    /\ (fetch.op = "fetch" /\ fetch.pc # "request"
        /\ RefusedDestination(fetch.host, fetch.seen))
       => /\ fetch.pc = "failed"
          /\ \A i \in 1..Len(conns) : conns[i].hop # fetch.hops

\* A redirect hop was refused after the first hop had been connected to.
C5_Witness ==
    /\ fetch.op = "fetch"
    /\ fetch.hops > 0
    /\ fetch.pc = "failed"
    /\ fetch.verdict = "blocked ip"
    /\ Len(conns) = fetch.hops


(***************************************************************************)
(*     Event Intake and Notification  (routers/webhooks.py, channels/)     *)
(*                                                                         *)
(* A body is a JSON value.  A string is a sequence of characters, a dict   *)
(* the sequence of its (key, value) pairs in insertion order, and None the *)
(* null value.                                                             *)
(***************************************************************************)
None == [kind |-> "null"]
JStr(s) == [kind |-> "str", s |-> s]
JNum(n) == [kind |-> "num", n |-> n]
JList(items) == [kind |-> "list", items |-> items]
JDict(items) == [kind |-> "dict", items |-> items]
JBool(b) == [kind |-> "bool", b |-> b]
Upload == [kind |-> "file"]

\* bool(value)
Truthy(value) ==
    CASE value.kind = "null" -> FALSE
      [] value.kind = "str"  -> value.s # <<>>
      [] value.kind = "num"  -> value.n # 0
      [] value.kind = "bool" -> value.b
      [] value.kind = "list" -> value.items # <<>>
      [] value.kind = "dict" -> value.items # <<>>
      [] OTHER -> TRUE

\* isinstance(value, dict)
IsDict(value) == value.kind = "dict"

HasKey(d, key) == \E i \in 1..Len(d.items) : d.items[i][1] = key

\* d.get(key, default)
DictGet(d, key, default) ==
    IF HasKey(d, key)
    THEN d.items[CHOOSE i \in 1..Len(d.items) : d.items[i][1] = key][2]
    ELSE default

\* d after d.pop(key, None)
DictWithout(d, key) ==
    JDict(SelectSeq(d.items, LAMBDA item : item[1] # key))

TokenKey ==
    <<"c", "f", "-", "t", "u", "r", "n", "s", "t", "i", "l", "e", "-", "r",
      "e", "s", "p", "o", "n", "s", "e">>
RawKey == <<"r", "a", "w">>
NameKey == <<"n", "a", "m", "e">>
EmailKey == <<"e", "m", "a", "i", "l">>
FormTypes == {"application/x-www-form-urlencoded", "multipart/form-data"}

\* What a request carries: a JSON document, form fields, or other bytes.
JsonPayload(value) == [kind |-> "json", value |-> value]
FormPayload(fields, text) == [kind |-> "form", fields |-> fields, text |-> text]
RawPayload(text) == [kind |-> "raw", text |-> text]

\* The body as receive_webhook parses it: JSON first, then a form when the
\* content type announces one (string fields only), then the raw bytes.
ParseBody(request) ==
    LET payload == request.payload
        asForm ==
            IF request.content_type \in FormTypes /\ payload.kind = "form"
            THEN JDict(SelectSeq(payload.fields,
                                 LAMBDA item : item[2].kind = "str"))
            ELSE None
    IN IF payload.kind = "json" THEN payload.value
       ELSE IF asForm # None THEN asForm
       ELSE IF payload.text # <<>>
       THEN JDict(<< <<RawKey, JStr(payload.text)>> >>)
       ELSE None

\* What the verification service does with a token.
VerifierOutcomes == {"success", "failure", "unreachable", "garbled"}

\* The Turnstile step: whether the service was asked, the body left after
\* the token was popped, and the HTTP error raised (0 for none).
Turnstile(an_inbox, body, verifier) ==
    IF an_inbox.turnstile_secret # "" /\ Truthy(body) /\ IsDict(body)
    THEN LET turnstile_token == DictGet(body, TokenKey, None)
             popped == DictWithout(body, TokenKey)
         IN IF ~Truthy(turnstile_token)
            THEN [asked |-> FALSE, body |-> popped, error |-> 400]
            ELSE [asked |-> TRUE, body |-> popped,
                  error |-> CASE verifier = "success" -> 0
                              [] verifier = "failure" -> 403
                              [] verifier = "unreachable" -> 503
                              [] OTHER -> 500]
    ELSE [asked |-> FALSE, body |-> body, error |-> 0]


(***************************************************************************)
(*        Channels: type resolution and formatting (channels/*.py)         *)
(***************************************************************************)
DiscordPattern ==
    <<"d", "i", "s", "c", "o", "r", "d", ".", "c", "o", "m", "/", "a", "p",
      "i", "/", "w", "e", "b", "h", "o", "o", "k", "s">>
SlackPattern ==
    <<"h", "o", "o", "k", "s", ".", "s", "l", "a", "c", "k", ".", "c", "o",
      "m", "/">>
TeamsPattern ==
    <<"w", "e", "b", "h", "o", "o", "k", ".", "o", "f", "f", "i", "c", "e",
      ".", "c", "o", "m">>
AzurePattern ==
    <<"l", "o", "g", "i", "c", ".", "a", "z", "u", "r", "e", ".", "c", "o",
      "m">>
TelegramPattern ==
    <<"a", "p", "i", ".", "t", "e", "l", "e", "g", "r", "a", "m", ".", "o",
      "r", "g", "/", "b", "o", "t">>
NtfyPattern ==
    <<"n", "t", "f", "y", ".", "s", "h", "/">>
UrlKey ==
    <<"u", "r", "l">>
WebhookUrlKey ==
    <<"w", "e", "b", "h", "o", "o", "k", "_", "u", "r", "l">>
BotUrlKey ==
    <<"b", "o", "t", "_", "u", "r", "l">>
RecipientsKey ==
    <<"r", "e", "c", "i", "p", "i", "e", "n", "t", "s">>

\* pattern in text
HasSub(text, pattern) ==
    \E i \in 1..(Len(text) - Len(pattern) + 1) :
        SubSeq(text, i, i + Len(pattern) - 1) = pattern

DetectLower(url_lower) ==
    IF HasSub(url_lower, DiscordPattern) THEN "discord"
    ELSE IF HasSub(url_lower, SlackPattern) THEN "slack"
    ELSE IF HasSub(url_lower, TeamsPattern) \/ HasSub(url_lower, AzurePattern)
    THEN "teams"
    ELSE IF HasSub(url_lower, TelegramPattern) THEN "telegram"
    ELSE IF HasSub(url_lower, NtfyPattern) THEN "ntfy"
    ELSE "webhook"

detect_channel_type(url) == DetectLower(lower(url))

\* A row of notification_channels.
NotificationChannel(id, type, is_active, config) ==
    [id |-> id, type |-> type, is_active |-> is_active, config |-> config]

\* What the body of the dispatcher's loop makes of one channel: a delivery
\* task, email recipients, nothing (unknown type), or an exception.
Raised == [kind |-> "raise"]
NoTask == [kind |-> "unknown"]
Task(type, url) == [kind |-> "task", type |-> type, url |-> url]
Recipients(list) == [kind |-> "email", recipients |-> list]

\* The configuration key each formatter reads its destination from.
DestinationKey(type) ==
    CASE type \in {"discord", "slack", "teams"} -> WebhookUrlKey
      [] type = "telegram" -> BotUrlKey
      [] OTHER -> UrlKey

\* format_discord, format_slack, format_teams, format_telegram, format_ntfy
\* and format_webhook: config.get and ctx.body.items() raise on what is not
\* a dict.
FormatChannel(type, config, body) ==
    IF ~IsDict(config) \/ ~IsDict(body) THEN Raised
    ELSE Task(type, DictGet(config, DestinationKey(type), JStr(<<>>)))

\* text.strip() of blanks
RECURSIVE Strip(_)
Strip(text) ==
    IF text # <<>> /\ text[1] = " " THEN Strip(Tail(text))
    ELSE IF text # <<>> /\ text[Len(text)] = " "
    THEN Strip(SubSeq(text, 1, Len(text) - 1))
    ELSE text

\* [r.strip() for r in recipients.split(",") if r.strip()]
SplitRecipients(text) ==
    LET parts == Split(text, ",")
        stripped == [i \in 1..Len(parts) |-> Strip(parts[i])]
    IN SelectSeq(stripped, LAMBDA r : r # <<>>)

\* The email branch: what email_recipients.extend(recipients) adds.
Extended(recipients) ==
    CASE recipients.kind = "str" ->
            Recipients([i \in 1..Len(SplitRecipients(recipients.s)) |->
                           JStr(SplitRecipients(recipients.s)[i])])
      [] recipients.kind = "list" -> Recipients(recipients.items)
      [] recipients.kind = "dict" ->
            Recipients([i \in 1..Len(recipients.items) |->
                           JStr(recipients.items[i][1])])
      [] OTHER -> Raised

CollectRecipients(config) ==
    IF ~IsDict(config) THEN Raised
    ELSE Extended(DictGet(config, RecipientsKey, JList(<<>>)))

HttpTypes == {"discord", "slack", "teams", "telegram", "ntfy"}

\* The formatter chosen by the resolved type.
PrepareTyped(channel_type, config, body) ==
    IF channel_type \in HttpTypes \cup {"webhook"}
    THEN FormatChannel(channel_type, config, body)
    ELSE IF channel_type = "email" THEN CollectRecipients(config)
    ELSE NoTask

\* A 'webhook' channel with a url: the type detected from the url replaces
\* the stored one unless it is 'webhook' again.
PrepareWebhook(url, config, body) ==
    IF ~Truthy(url) THEN PrepareTyped("webhook", config, body)
    ELSE IF url.kind # "str" THEN Raised
    ELSE PrepareTyped(detect_channel_type(url.s), config, body)

\* The pass detecting the type from the url whatever the stored type is.
Prepare_detecting(channel, body) ==
    IF channel.type = "email"
    THEN PrepareTyped(channel.type, channel.config, body)
    ELSE IF ~IsDict(channel.config) THEN Raised
    ELSE PrepareWebhook(DictGet(channel.config, UrlKey, JStr(<<>>)),
                        channel.config, body)

\* One pass of the loop for an active channel.
Prepare(channel, body) ==
    IF channel.type # "webhook"
    THEN PrepareTyped(channel.type, channel.config, body)
    ELSE IF ~IsDict(channel.config) THEN Raised
    ELSE PrepareWebhook(DictGet(channel.config, UrlKey, JStr(<<>>)),
                        channel.config, body)

(***************************************************************************)
(*     dispatch_notifications (channels/dispatcher.py).  What a call does  *)
(*     is the sequence of its effects, in the order they happen; the       *)
(*     deliveries of one gather are listed in task order.                  *)
(***************************************************************************)
\* What the network does with the deliveries, what the mail provider does
\* with the sends.
DeliveryFailures == {"exception", "timeout", "status", "blocked"}

Skipped == [kind |-> "inactive"]
Aborted == [kind |-> "aborted"]

\* One pass of the loop.
LoopPass(channel, body) ==
    IF ~channel.is_active THEN Skipped ELSE Prepare(channel, body)

\* The loop without its except clause: the first exception ends the call.
Passes_unguarded(rows, body) ==
    IF \E i \in 1..Len(rows) : LoopPass(rows[i], body) = Raised
    THEN [i \in 1..Len(rows) |-> Aborted]
    ELSE [i \in 1..Len(rows) |-> LoopPass(rows[i], body)]

\* The loop over the channels: each pass inside its own try/except.
Passes(rows, body) ==
    [i \in 1..Len(rows) |-> LoopPass(rows[i], body)]

\* logger.error / logger.warning of the loop
LoopLogs(rows, passes) ==
    SelectSeq([i \in 1..Len(rows) |->
                  [e |-> "log", channel |-> rows[i].id, what |-> passes[i].kind]],
              LAMBDA entry : entry.what \in {"raise", "unknown"})

\* tasks: the coroutines appended, with the channel each is for
Tasks(rows, passes) ==
    SelectSeq([i \in 1..Len(rows) |->
                  [channel |-> rows[i].id, pass |-> passes[i]]],
              LAMBDA task : task.pass.kind = "task")

\* email_recipients
RECURSIVE Collected(_, _)
Collected(passes, i) ==
    IF i > Len(passes) THEN <<>>
    ELSE IF passes[i].kind = "email"
    THEN passes[i].recipients \o Collected(passes, i + 1)
    ELSE Collected(passes, i + 1)

\* _send_notification: the request through safe_http_client; a destination
\* that is no URL, an exception and a status >= 400 are logged, nothing is
\* raised.
DeliveryOutcome(task, failing, failure) ==
    IF task.pass.url.kind # "str" THEN "exception"
    ELSE IF task.pass.url.s = <<>> THEN "exception"
    ELSE IF task.channel \in failing THEN failure
    ELSE "delivered"

_send_notification(task, failing, failure) ==
    [e |-> "deliver", channel |-> task.channel, type |-> task.pass.type,
     url |-> task.pass.url,
     outcome |-> DeliveryOutcome(task, failing, failure)]

\* A gather that gives up at the first delivery that does not succeed.
Gather_failfast(tasks, failing, failure) ==
    LET sent == [i \in 1..Len(tasks) |-> _send_notification(tasks[i], failing, failure)]
        bad == {i \in 1..Len(tasks) : sent[i].outcome # "delivered"}
    IN  IF bad = {} THEN sent
        ELSE SubSeq(sent, 1, CHOOSE i \in bad : \A j \in bad : i <= j)

\* asyncio.gather(*tasks, return_exceptions=True)
Gather(tasks, failing, failure) ==
    [i \in 1..Len(tasks) |-> _send_notification(tasks[i], failing, failure)]

\* The rate-limit step without its limit.
Counted_unlimited(key, counter) ==
    [counter |-> counter, allowed |-> TRUE,
     trace |-> << [e |-> "incr", key |-> key, count |-> counter.n] >>]

\* The rate-limit step on one counter: the counter afterwards, whether the
\* emails go on, and the effects.
Counted(key, counter) ==
    [counter |-> counter,
     allowed |-> counter.n <= EMAIL_LIMIT,
     trace |-> << [e |-> "incr", key |-> key, count |-> counter.n] >>
               \o IF counter.n > EMAIL_LIMIT
                  THEN << [e |-> "log", what |-> "email rate limit hit"] >>
                  ELSE <<>>]

Incremented(key, counter, t) ==
    Counted(key, IF counter.n = 1
                 THEN RedisExpire(counter, EMAIL_WINDOW, t) ELSE counter)

\* The rate-limit step failing closed: no emails when the store is down.
EmailRate_closed(key, counter, up, t) ==
    IF up THEN Incremented(key, RedisIncr(Purge(counter, t)), t)
    ELSE [counter |-> counter, allowed |-> FALSE,
          trace |-> << [e |-> "log", what |-> "email rate limiter unavailable"] >>]

EmailRate(key, counter, up, t) ==
    IF up THEN Incremented(key, RedisIncr(Purge(counter, t)), t)
    ELSE [counter |-> counter, allowed |-> TRUE,
          trace |-> << [e |-> "log", what |-> "email rate limiter unavailable"] >>]

\* _send_single_email for each recipient, gathered with return_exceptions.
SendOutcome(to, bad_mail) == IF to \in bad_mail THEN "failed" ELSE "sent"

\* The sends made one after the other, the first failure ending the loop.
RECURSIVE SendsFrom(_, _, _)
SendsFrom(recipients, bad_mail, i) ==
    IF i > Len(recipients) THEN <<>>
    ELSE IF recipients[i] \in bad_mail
    THEN << [e |-> "email", to |-> recipients[i], outcome |-> "failed"] >>
    ELSE << [e |-> "email", to |-> recipients[i], outcome |-> "sent"] >>
         \o SendsFrom(recipients, bad_mail, i + 1)

_send_emails_sequential(recipients, bad_mail) ==
    SendsFrom(recipients, bad_mail, 1)

_send_emails(recipients, bad_mail) ==
    [i \in 1..Len(recipients) |->
        [e |-> "email", to |-> recipients[i],
         outcome |-> SendOutcome(recipients[i], bad_mail)]]

\* Lines 113-114: _build_email_html walks body.items() before any send.
DispatchEmails(trace, rate, recipients, body, bad_mail) ==
    IF ~rate.allowed
    THEN [raised |-> FALSE, counter |-> rate.counter,
          trace |-> trace \o rate.trace]
    ELSE IF ~IsDict(body)
    THEN [raised |-> TRUE, counter |-> rate.counter,
          trace |-> trace \o rate.trace]
    ELSE [raised |-> FALSE, counter |-> rate.counter,
          trace |-> trace \o rate.trace \o _send_emails(recipients, bad_mail)]

\* Lines 98-114: the emails, once the deliveries have been gathered.
DispatchAfterLoop(trace, recipients, body, email_provider, counter, env) ==
    IF recipients = <<>> \/ ~email_provider
    THEN [raised |-> FALSE, counter |-> counter, trace |-> trace]
    ELSE DispatchEmails(trace,
                        EmailRate("channel_email_rate", counter, env.up, env.t),
                        recipients, body, env.bad_mail)

\* The emails ahead of the gathered deliveries.
DispatchPasses_mailfirst(rows, passes, body, email_provider, counter, env) ==
    [DispatchAfterLoop(LoopLogs(rows, passes), Collected(passes, 1), body,
                       email_provider, counter, env)
        EXCEPT !.trace = @ \o Gather(Tasks(rows, passes), env.failing,
                                     env.failure)]

DispatchPasses(rows, passes, body, email_provider, counter, env) ==
    DispatchAfterLoop(LoopLogs(rows, passes)
                          \o Gather(Tasks(rows, passes), env.failing, env.failure),
                      Collected(passes, 1), body, email_provider, counter, env)

\* dispatch_notifications(inbox, channels, body, email_provider): counter is
\* the inbox's channel_email_rate counter, env what the surroundings do.
dispatch_notifications(rows, body, email_provider, counter, env) ==
    DispatchPasses(rows, Passes(rows, body), body, email_provider, counter, env)

(***************************************************************************)
(* SpecDispatch: the dispatcher called for inboxes of five channels, sound *)
(* ones and ones with one channel at fault, with a form body or a JSON     *)
(* list, with and without a provider, while deliveries and sends fail and  *)
(* the counter store comes and goes.                                       *)
(***************************************************************************)
MaxDispatches == 1

PlainUrl == <<"h", "t", "t", "p", ":", "/", "/", "o", "k", "/", "h">>
DiscordUrl ==
    <<"h", "t", "t", "p", "s", ":", "/", "/", "D", "i", "s", "c", "o", "r",
      "d", ".", "c", "o", "m", "/", "a", "p", "i", "/", "w", "e", "b", "h",
      "o", "o", "k", "s", "/", "1">>
SlackUrl ==
    <<"h", "t", "t", "p", "s", ":", "/", "/", "h", "o", "o", "k", "s", ".",
      "s", "l", "a", "c", "k", ".", "c", "o", "m", "/", "s">>
NtfyUrl ==
    <<"h", "t", "t", "p", "s", ":", "/", "/", "n", "t", "f", "y", ".", "s",
      "h", "/", "t">>
TelegramUrl ==
    <<"h", "t", "t", "p", "s", ":", "/", "/", "a", "p", "i", ".", "t", "e",
      "l", "e", "g", "r", "a", "m", ".", "o", "r", "g", "/", "b", "o", "t",
      "1", "/", "s", "e", "n", "d">>
MailA == <<"a", "@", "x">>
MailB == <<"b", "@", "x">>
MailList == <<"b", "@", "x", ",", " ", "c", "@", "x", ",", ",", " ">>

Config(key, value) == JDict(<< <<key, value>> >>)

\* Sound channels, by type.
SoundChannel(id, type) ==
    NotificationChannel(id, type, TRUE,
        CASE type = "webhook" -> Config(UrlKey, JStr(PlainUrl))
          [] type = "discord" -> Config(WebhookUrlKey, JStr(DiscordUrl))
          [] type = "slack"   -> Config(WebhookUrlKey, JStr(SlackUrl))
          [] type = "ntfy"    -> Config(UrlKey, JStr(NtfyUrl))
          [] type = "telegram" -> Config(BotUrlKey, JStr(TelegramUrl))
          [] type = "email"   ->
                Config(RecipientsKey, JList(<<JStr(MailA), JStr(MailB)>>)))

\* An email channel that lists its recipients in one string.
ListedChannel(id) ==
    NotificationChannel(id, "email", TRUE, Config(RecipientsKey, JStr(MailList)))

\* A 'webhook' channel whose url is a chat service's.
DetectedChannel(id) ==
    NotificationChannel(id, "webhook", TRUE, Config(UrlKey, JStr(DiscordUrl)))

HttpLayout ==
    <<SoundChannel(1, "webhook"), SoundChannel(2, "discord"),
      SoundChannel(3, "slack"), SoundChannel(4, "ntfy"),
      SoundChannel(5, "telegram")>>

MixedLayout ==
    <<DetectedChannel(1), SoundChannel(2, "email"), SoundChannel(3, "slack"),
      ListedChannel(4), SoundChannel(5, "webhook")>>

MaxChannels == Len(HttpLayout)

\* What can be wrong with a channel row: a null config (PATCH with
\* "config": null), a url or a recipient list that is a number (PATCH
\* stores any config), and a channel switched off.
Faults == {"null config", "number", "inactive"}

Faulty(channel, fault) ==
    CASE fault = "null config" -> [channel EXCEPT !.config = None]
      [] fault = "number" ->
            [channel EXCEPT !.config =
                JDict(<< <<UrlKey, JNum(5)>>, <<RecipientsKey, JNum(5)>> >>)]
      [] fault = "inactive" -> [channel EXCEPT !.is_active = FALSE]

DispatchLayouts ==
    {HttpLayout, MixedLayout}
    \cup { [layout EXCEPT ![i] = Faulty(layout[i], fault)] :
              layout \in {HttpLayout, MixedLayout},
              i \in 1..MaxChannels, fault \in Faults }

FormBody ==
    JDict(<< <<NameKey, JStr(<<"A", "l">>)>>, <<EmailKey, JStr(MailA)>> >>)
ListBody == JList(<<FormBody>>)

\* A row of webhook_inboxes.
WebhookInbox(slug, is_active, turnstile_secret, forward_url, notify_email) ==
    [slug |-> slug, is_active |-> is_active,
     turnstile_secret |-> turnstile_secret,
     forward_url |-> forward_url, notify_email |-> notify_email]

\* A counter that has reached the limit, in a window opened at time 0.
AtLimit == [n |-> EMAIL_LIMIT, exp |-> Ms(EMAIL_WINDOW)]

InitDispatch ==
    /\ EnvInit /\ AuthInit0 /\ RateInit0 /\ IpInit0 /\ FetchInit0
    /\ inbox = WebhookInbox("contact", TRUE, "", <<>>, <<>>)
    /\ channels \in DispatchLayouts
    /\ hookStore \in {[k \in EmailRateKeys |-> NoCounter],
                      [k \in EmailRateKeys |-> AtLimit]}
    /\ events = 0
    /\ hookRes = Idle
    /\ mailLog = <<>>
    /\ ProviderInit0

\* What the network does to the deliveries of one call.
NetworkFaults ==
    {[failing |-> {}, failure |-> "none"]}
    \cup {[failing |-> {1}, failure |-> failure] : failure \in DeliveryFailures}
    \cup {[failing |-> 1..MaxChannels, failure |-> "exception"]}

\* The surroundings of one call: all well, or the network failing, or the
\* mail provider failing for one recipient.
Calm == [failing |-> {}, failure |-> "none", bad_mail |-> {}]

DispatchWeathers ==
    {[Calm EXCEPT !.failing = net.failing, !.failure = net.failure] :
        net \in NetworkFaults}
    \cup {[Calm EXCEPT !.bad_mail = {JStr(MailB)}]}

Surroundings(weather) ==
    [up |-> storeUp, t |-> now, failing |-> weather.failing,
     failure |-> weather.failure, bad_mail |-> weather.bad_mail]

Dispatched(body, email_provider, env, result) ==
    /\ hookRes' = [op |-> "dispatched", body |-> body,
                   email_provider |-> email_provider, env |-> env,
                   before |-> hookStore["channel_email_rate"],
                   raised |-> result.raised, trace |-> result.trace]
    /\ hookStore' = [hookStore EXCEPT !["channel_email_rate"] = result.counter]

DispatchWith(body, email_provider, env) ==
    Dispatched(body, email_provider, env,
               dispatch_notifications(channels, body, email_provider,
                                      hookStore["channel_email_rate"], env))

\* The dispatcher is called for an event that has been committed.
DispatchCall ==
    /\ events < MaxDispatches
    /\ events' = events + 1
    /\ \E body \in {FormBody, ListBody}, email_provider \in BOOLEAN,
          weather \in DispatchWeathers :
          DispatchWith(body, email_provider, Surroundings(weather))
    /\ UNCHANGED <<envVars, authVars, rateVars, ipVars, fetchVars, inbox,
                   channels, mailLog, emailProviders, settings>>

NextDispatch == DispatchCall \/ StoreFlip

SpecDispatch == InitDispatch /\ [][NextDispatch]_vars

\* The channels whose pass of the loop raises for this body.
Raising(rows, body) ==
    {i \in 1..Len(rows) : LoopPass(rows[i], body) = Raised}

\* The rows without those at the given places.
RECURSIVE Without(_, _, _)
Without(rows, places, i) ==
    IF i > Len(rows) THEN <<>>
    ELSE IF i \in places THEN Without(rows, places, i + 1)
    ELSE <<rows[i]>> \o Without(rows, places, i + 1)

\* The delivery attempts, counter effects and sends of a call.
Attempts(trace) ==
    SelectSeq(trace, LAMBDA entry : entry.e \in {"deliver", "incr", "email"})

Delivered(trace) ==
    {trace[i].channel : i \in {j \in 1..Len(trace) : trace[j].e = "deliver"}}

(***************************************************************************)
(* C9: an exception raised while preparing one channel's notification is   *)
(* caught and logged, and every other active channel still gets its        *)
(* delivery attempt: the call raises nothing because of it, logs the       *)
(* channel, and attempts exactly what it attempts for the inbox without    *)
(* the raising channels; with 5 channels of which one raises during        *)
(* formatting, the other 4 are delivered to.                               *)
(***************************************************************************)
C9_ChannelIsolation ==
    hookRes.op = "dispatched" =>
        /\ \A i \in Raising(channels, hookRes.body) :
              \E j \in 1..Len(hookRes.trace) :
                  hookRes.trace[j] =
                      [e |-> "log", channel |-> channels[i].id, what |-> "raise"]
        /\ Attempts(hookRes.trace) =
               Attempts(dispatch_notifications(
                            Without(channels, Raising(channels, hookRes.body), 1),
                            hookRes.body, hookRes.email_provider,
                            hookRes.before, hookRes.env).trace)
        /\ \A i \in 1..Len(channels) :
              LoopPass(channels[i], hookRes.body).kind = "task"
                  => channels[i].id \in Delivered(hookRes.trace)
        /\ (Len(channels) = 5
            /\ Cardinality(Raising(channels, hookRes.body)) = 1
            /\ \A i \in 1..5 :
                  channels[i].is_active /\ channels[i].type # "email")
           => Cardinality(Delivered(hookRes.trace)) = 4

\* Five active channels, the third with a null config: four deliveries.
C9_Witness ==
    /\ hookRes.op = "dispatched"
    /\ hookRes.body = FormBody
    /\ Len(channels) = 5
    /\ \A i \in 1..5 : channels[i].is_active /\ channels[i].type # "email"
    /\ Raising(channels, hookRes.body) = {3}
    /\ channels[3].config = None
    /\ Delivered(hookRes.trace) = {1, 2, 4, 5}
    /\ ~hookRes.raised

(***************************************************************************)
(*     receive_webhook (routers/webhooks.py): the notification routes      *)
(*     taken once the event has been committed.  store holds the inbox's   *)
(*     two email counters.                                                 *)
(***************************************************************************)
\* What resolve_email_provider does: a provider, None, or an exception.
ProviderOutcomes == {"provider", "none", "error"}

Logged(what) == [e |-> "log", what |-> what]

\* try ... except Exception (lines 118-133) left out: what the dispatcher
\* or the provider resolution raises leaves the handler.
Guarded_absent(result) == result

\* try ... except Exception: wh_logger.exception (lines 118-133)
Guarded(result) ==
    IF result.raised
    THEN [raised |-> FALSE, counter |-> result.counter,
          trace |-> Append(result.trace, Logged("notification dispatch failed"))]
    ELSE result

\* Lines 120-131: the active channels, the provider, the dispatcher.
ChannelRoute(rows, body, counter, env) ==
    IF env.provider = "error"
    THEN [raised |-> TRUE, counter |-> counter, trace |-> <<>>]
    ELSE dispatch_notifications(rows, body, env.provider = "provider",
                                counter, env)

Stored(store, key, result) ==
    [raised |-> result.raised,
     store |-> [store EXCEPT ![key] = result.counter],
     trace |-> result.trace]

\* Lines 136-200: the legacy forward; the chat formats are chosen by the
\* URL as written and only for a dict body.
ForwardStyle(forward_url, body) ==
    IF HasSub(forward_url, DiscordPattern) /\ IsDict(body) THEN "discord"
    ELSE IF HasSub(forward_url, SlackPattern) /\ IsDict(body) THEN "slack"
    ELSE "plain"

ForwardOutcome(env) == IF env.failing = {} THEN "delivered" ELSE env.failure

Forward(forward_url, body, env) ==
    IF forward_url = <<>> THEN <<>>
    ELSE << [e |-> "forward", url |-> forward_url,
             style |-> ForwardStyle(forward_url, body),
             outcome |-> ForwardOutcome(env)] >>
         \o IF ForwardOutcome(env) \in {"exception", "timeout", "blocked"}
            THEN << Logged("forwarding failed") >>
            ELSE <<>>

\* Lines 281-294: the sends, one after the other; the first that fails
\* ends the loop.
RECURSIVE LegacySends(_, _, _)
LegacySends(recipients, bad_mail, i) ==
    IF i > Len(recipients) THEN <<>>
    ELSE IF JStr(recipients[i]) \in bad_mail
    THEN << [e |-> "email", to |-> JStr(recipients[i]), outcome |-> "failed"],
            Logged("email notification failed") >>
    ELSE << [e |-> "email", to |-> JStr(recipients[i]), outcome |-> "sent"] >>
         \o LegacySends(recipients, bad_mail, i + 1)

\* Lines 215-298: body.get raises on what is not a dict.
LegacyEmails(notify_email, body, bad_mail) ==
    IF ~IsDict(body) THEN << Logged("email notification failed") >>
    ELSE LegacySends(SplitRecipients(notify_email), bad_mail, 1)

\* Lines 202-298: the rate limit, then the sends.
LegacyLimited(trace, rate, notify_email, body, bad_mail) ==
    [raised |-> FALSE, counter |-> rate.counter,
     trace |-> trace \o rate.trace
               \o IF rate.allowed
                  THEN LegacyEmails(notify_email, body, bad_mail)
                  ELSE <<>>]

LegacyNotify(trace, notify_email, body, counter, env) ==
    IF notify_email = <<>>
    THEN [raised |-> FALSE, counter |-> counter, trace |-> trace]
    ELSE LegacyLimited(trace,
                       EmailRate("webhook_email_rate", counter, env.up, env.t),
                       notify_email, body, env.bad_mail)

LegacyRoute(an_inbox, body, counter, env) ==
    LegacyNotify(Forward(an_inbox.forward_url, body, env),
                 an_inbox.notify_email, body, counter, env)

ActiveChannels(rows) == SelectSeq(rows, LAMBDA channel : channel.is_active)

\* Lines 105-298: nothing for a falsy body; the dispatcher when the inbox
\* has an active channel; else the legacy fields.
Notify(an_inbox, rows, body, store, env) ==
    IF ~Truthy(body) THEN [raised |-> FALSE, store |-> store, trace |-> <<>>]
    ELSE IF ActiveChannels(rows) # <<>>
    THEN Stored(store, "channel_email_rate",
                Guarded(ChannelRoute(ActiveChannels(rows), body,
                                     store["channel_email_rate"], env)))
    ELSE Stored(store, "webhook_email_rate",
                LegacyRoute(an_inbox, body, store["webhook_email_rate"], env))

\* The response of the handler.
HttpError(status) == [status |-> status]
Received(event_id) == [status |-> 200, ack |-> "received", event_id |-> event_id]

VerifyTrace(ts, verifier) ==
    IF ts.asked THEN << [e |-> "verify", outcome |-> verifier] >> ELSE <<>>

\* The notifications ahead of the commit.
Accepted_late(ts, verifier, body, event_id, routed) ==
    [response |-> IF routed.raised THEN HttpError(500) ELSE Received(event_id),
     body |-> body, asked |-> ts.asked, persisted |-> TRUE,
     store |-> routed.store,
     trace |-> VerifyTrace(ts, verifier)
               \o routed.trace
               \o << [e |-> "commit", event_id |-> event_id] >>]

\* Lines 93-300: the commit, the notifications, the acknowledgement.
Accepted(ts, verifier, body, event_id, routed) ==
    [response |-> IF routed.raised THEN HttpError(500) ELSE Received(event_id),
     body |-> body, asked |-> ts.asked, persisted |-> TRUE,
     store |-> routed.store,
     trace |-> VerifyTrace(ts, verifier)
               \o << [e |-> "commit", event_id |-> event_id] >>
               \o routed.trace]

Rejected(ts, verifier, store) ==
    [response |-> HttpError(ts.error), body |-> ts.body, asked |-> ts.asked,
     persisted |-> FALSE, store |-> store, trace |-> VerifyTrace(ts, verifier)]

Challenged(an_inbox, rows, store, event_id, env, ts) ==
    IF ts.error # 0 THEN Rejected(ts, env.verifier, store)
    ELSE Accepted(ts, env.verifier, ts.body, event_id,
                  Notify(an_inbox, rows, ts.body, store, env))

\* receive_webhook(slug, request, db): rows are the inbox's channels,
\* event_id the id the new event gets.
receive_webhook(request, an_inbox, rows, store, event_id, env) ==
    IF request.slug # an_inbox.slug \/ ~an_inbox.is_active
    THEN [response |-> HttpError(404), body |-> None, asked |-> FALSE,
          persisted |-> FALSE, store |-> store, trace |-> <<>>]
    ELSE Challenged(an_inbox, rows, store, event_id, env,
                    Turnstile(an_inbox, ParseBody(request), env.verifier))

(***************************************************************************)
(* SpecHook: one inbox, with and without a challenge secret, legacy fields *)
(* and channels, receives requests of every body shape while the verifier, *)
(* the provider resolution, the network, the mail provider and the counter *)
(* store fail in turn.                                                     *)
(***************************************************************************)
MaxEvents == 1

Token == <<"t", "o", "k">>
Json == "application/json"
UrlEncoded == "application/x-www-form-urlencoded"
Plain == "text/plain"

Request(content_type, payload) ==
    [slug |-> "contact", method |-> "POST", content_type |-> content_type,
     payload |-> payload]

TokenBody == JDict(FormBody.items \o << <<TokenKey, JStr(Token)>> >>)
BlankTokenBody == JDict(FormBody.items \o << <<TokenKey, JStr(<<>>)>> >>)
FormFields == TokenBody.items \o << << <<"f">>, Upload >> >>
FormText == <<"n", "a", "m", "e", "=", "A", "l">>

Requests ==
    { Request(Json, JsonPayload(TokenBody)),
      Request(Json, JsonPayload(FormBody)),
      Request(Json, JsonPayload(BlankTokenBody)),
      Request(Json, JsonPayload(ListBody)),
      Request(Json, JsonPayload(JDict(<<>>))),
      Request(Json, JsonPayload(None)),
      Request(Json, JsonPayload(JStr(Token))),
      Request(UrlEncoded, FormPayload(FormFields, FormText)),
      Request(Plain, FormPayload(FormFields, FormText)),
      Request(Plain, RawPayload(FormText)),
      Request(Plain, RawPayload(<<>>)),
      [Request(Json, JsonPayload(FormBody)) EXCEPT !.slug = "other"] }

\* The surroundings of one call: all well, or one thing failing.
Fair ==
    [verifier |-> "success", provider |-> "provider", failing |-> {},
     failure |-> "none", bad_mail |-> {}]

Weathers ==
    {Fair}
    \cup {[Fair EXCEPT !.verifier = verifier] : verifier \in VerifierOutcomes}
    \cup {[Fair EXCEPT !.provider = provider] : provider \in ProviderOutcomes}
    \cup {[Fair EXCEPT !.failing = net.failing, !.failure = net.failure] :
             net \in NetworkFaults}
    \cup {[Fair EXCEPT !.bad_mail = {JStr(MailB)}]}

Inboxes ==
    { WebhookInbox("contact", TRUE, secret, legacy[1], legacy[2]) :
        secret \in {"", "secret"},
        legacy \in { <<<<>>, <<>>>>, <<PlainUrl, MailList>>,
                     <<DiscordUrl, <<>>>> } }
    \cup { WebhookInbox("contact", FALSE, "", <<>>, <<>>) }

HookLayouts ==
    { <<>>, MixedLayout,
      [MixedLayout EXCEPT ![3] = Faulty(MixedLayout[3], "null config")],
      << Faulty(SoundChannel(1, "slack"), "inactive") >> }

InitHook ==
    /\ EnvInit /\ AuthInit0 /\ RateInit0 /\ IpInit0 /\ FetchInit0
    /\ inbox \in Inboxes
    /\ channels \in HookLayouts
    /\ hookStore \in {[k \in EmailRateKeys |-> NoCounter],
                      [k \in EmailRateKeys |-> AtLimit]}
    /\ events = 0
    /\ hookRes = Idle
    /\ mailLog = <<>>
    /\ ProviderInit0

HookEnv(weather) ==
    [up |-> storeUp, t |-> now, verifier |-> weather.verifier,
     provider |-> weather.provider, failing |-> weather.failing,
     failure |-> weather.failure, bad_mail |-> weather.bad_mail]

Handled(result) ==
    /\ hookRes' = [op |-> "received", response |-> result.response,
                   body |-> result.body, asked |-> result.asked,
                   persisted |-> result.persisted, trace |-> result.trace]
    /\ events' = IF result.persisted THEN events + 1 ELSE events
    /\ hookStore' = result.store

ReceiveWebhook ==
    /\ events < MaxEvents
    /\ \E request \in Requests, weather \in Weathers :
          Handled(receive_webhook(request, inbox, channels, hookStore,
                                  events + 1, HookEnv(weather)))
    /\ UNCHANGED <<envVars, authVars, rateVars, ipVars, fetchVars, inbox,
                   channels, mailLog, emailProviders, settings>>

NextHook == ReceiveWebhook \/ StoreFlip

SpecHook == InitHook /\ [][NextHook]_vars

\* The notification effects of a call.
Dispatches(trace) ==
    SelectSeq(trace, LAMBDA entry : entry.e \in {"deliver", "forward", "email"})

\* The verification service was asked about a token of this call, and
\* what came of it.
Verification(trace, outcome) ==
    \E i \in 1..Len(trace) :
        trace[i] = [e |-> "verify", outcome |-> outcome]

(***************************************************************************)
(* C8: for an inbox that has a bot-challenge secret, an event is persisted *)
(* and dispatched only after a challenge token taken from its body was     *)
(* verified successfully, for every shape of body; a missing or failed     *)
(* token yields a rejection (400, 403), an unreachable verifier the        *)
(* distinct rejection 503, and in each rejection case no event is          *)
(* persisted and nothing is dispatched.                                    *)
(***************************************************************************)
C8_VerifiedBeforeAccepted ==
    (hookRes.op = "received" /\ inbox.turnstile_secret # "") =>
        /\ (hookRes.persisted \/ Dispatches(hookRes.trace) # <<>>)
              => Verification(hookRes.trace, "success")
        /\ hookRes.response.status \in {400, 403, 503}
              => ~hookRes.persisted /\ Dispatches(hookRes.trace) = <<>>
        /\ Verification(hookRes.trace, "unreachable")
              => hookRes.response.status = 503
        /\ Verification(hookRes.trace, "failure")
              => hookRes.response.status = 403
        /\ (hookRes.body # None /\ ~hookRes.asked)
              => hookRes.response.status = 400

\* A notification-dispatch failure of the call: a channel that could not be
\* prepared, a delivery or forward that did not succeed, a send that
\* failed, a counter store that did not answer, a provider that could not
\* be resolved.
DispatchFailed(entry) ==
    \/ entry.e = "log"
    \/ entry.e \in {"deliver", "forward"} /\ entry.outcome # "delivered"
    \/ entry.e = "email" /\ entry.outcome # "sent"

(***************************************************************************)
(* C10: once an event has been persisted, no notification-dispatch failure *)
(* aborts the inbound call: the caller receives the 'received'             *)
(* acknowledgement with the event id.                                      *)
(***************************************************************************)
C10_AcknowledgedOncePersisted ==
    (hookRes.op = "received" /\ hookRes.persisted) =>
        hookRes.response = Received(events)

\* An event was persisted, the provider could not be resolved, and the
\* call was acknowledged.
C10_Witness ==
    /\ hookRes.op = "received"
    /\ hookRes.persisted
    /\ hookRes.trace[Len(hookRes.trace)].e = "log"
    /\ \E i \in 1..Len(hookRes.trace) :
          hookRes.trace[i] = Logged("notification dispatch failed")
    /\ hookRes.response = Received(events)

(***************************************************************************)
(* SpecEmail: one inbox that notifies by email, through an email channel   *)
(* or through its legacy notify address, receives a form again and again   *)
(* while the clock advances by half windows and the counter store comes    *)
(* and goes.  mailLog keeps the email step of every event.                 *)
(***************************************************************************)
MaxMailEvents == 12
MailTicks == 2

MailStep == Ms(EMAIL_WINDOW) \div 2

EmailInboxes ==
    { [row |-> WebhookInbox("contact", TRUE, "", <<>>, <<>>),
       rows |-> << SoundChannel(1, "email") >>],
      [row |-> WebhookInbox("contact", TRUE, "", <<>>, MailList),
       rows |-> <<>>] }

InitEmail ==
    /\ EnvInit /\ AuthInit0 /\ RateInit0 /\ IpInit0 /\ FetchInit0
    /\ \E layout \in EmailInboxes :
          inbox = layout.row /\ channels = layout.rows
    /\ hookStore = [k \in EmailRateKeys |-> NoCounter]
    /\ events = 0
    /\ hookRes = Idle
    /\ mailLog = <<>>
    /\ ProviderInit0

\* The emails of a call that were sent.
Sent(trace) ==
    SelectSeq(trace, LAMBDA entry : entry.e = "email" /\ entry.outcome = "sent")

\* The email step of a call, as the history keeps it.
MailEntry(trace) ==
    [t |-> now, up |-> storeUp, sent |-> Len(Sent(trace)),
     limited |-> \E i \in 1..Len(trace) :
                    trace[i] = Logged("email rate limit hit")]

Mailed(result) ==
    /\ Handled(result)
    /\ mailLog' = Append(mailLog, MailEntry(result.trace))

\* An event with email recipients arrives; the store is unreachable for at
\* most one of the events.
MailEvent ==
    /\ events < MaxMailEvents
    /\ storeUp \/ \A i \in 1..Len(mailLog) : mailLog[i].up
    /\ Mailed(receive_webhook(Request(Json, JsonPayload(FormBody)), inbox,
                              channels, hookStore, events + 1, HookEnv(Fair)))
    /\ UNCHANGED <<envVars, authVars, rateVars, ipVars, fetchVars, inbox,
                   channels, emailProviders, settings>>

MailTick ==
    /\ now < MailTicks * MailStep
    /\ AdvanceClock(MailStep)

NextEmail == MailEvent \/ MailTick \/ StoreFlip

SpecEmail == InitEmail /\ [][NextEmail]_vars

\* The event that opened the 600-second window step i of the log lies in:
\* the first step opens a window, and so does every step that comes 600
\* seconds or more after the opening of the window before it.
SameWindow(log, i, opener) ==
    IF log[i].t < log[opener].t + Ms(EMAIL_WINDOW) THEN opener ELSE i

RECURSIVE Opener(_, _)
Opener(log, i) ==
    IF i = 1 THEN 1 ELSE SameWindow(log, i, Opener(log, i - 1))

\* The first 10 steps of each window send, the later ones send nothing and
\* log the limit.
TenPerWindow(log) ==
    \A i \in 1..Len(log) :
        IF i - Opener(log, i) < EMAIL_LIMIT
        THEN log[i].sent > 0 /\ ~log[i].limited
        ELSE log[i].sent = 0 /\ log[i].limited

VALID_PROVIDER_TYPES == {"gmail", "resend", "sendgrid", "smtp"}
NoInbox == "NULL"

EmailProvider(inbox_id, type, config, is_active) ==
    [inbox_id |-> inbox_id, type |-> type, config |-> config,
     is_active |-> is_active]

\* A provider object built from a stored config or from the settings.
Provider(type, config) == [kind |-> "provider", type |-> type, config |-> config]

Front(s) == SubSeq(s, 1, Len(s) - 1)

PathStep(parts, c) ==
    IF c = "/" THEN Append(parts, <<>>)
    ELSE [parts EXCEPT ![Len(parts)] = Append(@, c)]

\* The parts of a path between its slashes.
RECURSIVE PathParts(_)
PathParts(path) ==
    IF path = <<>> THEN << <<>> >>
    ELSE PathStep(PathParts(Front(path)), path[Len(path)])

NormalStep(done, part) ==
    IF part \in {<<>>, <<".">>} THEN done
    ELSE IF part = <<".", ".">>
    THEN IF done = <<>> THEN <<>> ELSE Front(done)
    ELSE Append(done, part)

RECURSIVE Normal(_)
Normal(parts) ==
    IF parts = <<>> THEN <<>>
    ELSE NormalStep(Normal(Front(parts)), parts[Len(parts)])

RECURSIVE Joined(_)
Joined(parts) ==
    IF parts = <<>> THEN <<>>
    ELSE Joined(Front(parts)) \o <<"/">> \o parts[Len(parts)]

\* os.path.realpath of an absolute path
realpath(path) ==
    IF Normal(PathParts(path)) = <<>> THEN <<"/">>
    ELSE Joined(Normal(PathParts(path)))

\* text.startswith(prefix)
StartsWith(text, prefix) ==
    /\ Len(text) >= Len(prefix)
    /\ SubSeq(text, 1, Len(prefix)) = prefix

\* "/app/config/gmail"
allowed_dir ==
    <<"/", "a", "p", "p", "/", "c", "o", "n", "f", "i", "g", "/", "g", "m",
      "a", "i", "l">>

\* config[key] for every key: a KeyError when one is missing.
Indexed(config, keys) == \A key \in keys : HasKey(config, key)

\* GmailProvider.from_config (providers/gmail.py)
Gmail_from_config(config) ==
    IF ~Indexed(config, {"credentials_path", "token_path"}) THEN Raised
    ELSE IF \E key \in {"credentials_path", "token_path"} :
               ~StartsWith(realpath(DictGet(config, key, None).s), allowed_dir)
    THEN Raised
    ELSE IF ~HasKey(config, "sender_email") THEN Raised
    ELSE Provider("gmail", config)

\* GmailProvider.from_settings (providers/gmail.py)
Gmail_from_settings(conf) ==
    IF ~conf.gmail_token_exists THEN None
    ELSE IF conf.gmail_sender_email = <<>> THEN None
    ELSE Provider("gmail", JDict(<< <<"sender_email",
                                      JStr(conf.gmail_sender_email)>> >>))

\* ResendProvider.from_config (providers/resend.py)
Resend_from_config(config) ==
    IF Indexed(config, {"api_key", "from_email"})
    THEN Provider("resend", config) ELSE Raised

\* SendGridProvider.from_config (providers/sendgrid.py)
SendGrid_from_config(config) ==
    IF Indexed(config, {"api_key", "from_email"})
    THEN Provider("sendgrid", config) ELSE Raised

\* SmtpProvider.from_config (providers/smtp.py)
Smtp_from_config(config) ==
    IF Indexed(config, {"host", "port", "username", "password", "from_email"})
    THEN Provider("smtp", config) ELSE Raised

_build_provider(record) ==
    CASE record.type = "gmail"    -> Gmail_from_config(record.config)
      [] record.type = "resend"   -> Resend_from_config(record.config)
      [] record.type = "sendgrid" -> SendGrid_from_config(record.config)
      [] record.type = "smtp"     -> Smtp_from_config(record.config)
      [] OTHER -> Raised

\* select(EmailProviderModel).where(inbox_id ..., is_active.is_(True))
ActiveRows(table, inbox_id) ==
    {row \in table : row.inbox_id = inbox_id /\ row.is_active}

\* Result.scalar_one_or_none
scalar_one_or_none(rows) ==
    IF rows = {} THEN None
    ELSE IF Cardinality(rows) = 1
    THEN [kind |-> "row", row |-> CHOOSE row \in rows : TRUE]
    ELSE Raised

\* Lines 44-56 of the resolver.
ResolveGlobal(global_provider, conf) ==
    CASE global_provider.kind = "raise" -> Raised
      [] global_provider.kind = "row" -> _build_provider(global_provider.row)
      [] OTHER -> Gmail_from_settings(conf)

\* Lines 40-42 of the resolver.
ResolveSpecific(specific, table, conf) ==
    CASE specific.kind = "raise" -> Raised
      [] specific.kind = "row" -> _build_provider(specific.row)
      [] OTHER -> ResolveGlobal(scalar_one_or_none(ActiveRows(table, NoInbox)),
                                conf)

resolve_email_provider(table, conf, inbox_id) ==
    ResolveSpecific(scalar_one_or_none(ActiveRows(table, inbox_id)),
                    table, conf)

\* _require_fields (channels/validate.py): the first field that is missing
\* or falsy is the error.
_require_fields(config, fields) ==
    \A key \in fields : Truthy(DictGet(config, key, None))

\* validate_provider_config: TRUE when it returns no error.
validate_provider_config(provider_type, config) ==
    CASE provider_type = "gmail" ->
           _require_fields(config, {"credentials_path", "token_path",
                                    "sender_email"})
      [] provider_type = "resend" ->
           _require_fields(config, {"api_key", "from_email"})
      [] provider_type = "sendgrid" ->
           _require_fields(config, {"api_key", "from_email"})
      [] provider_type = "smtp" ->
           _require_fields(config, {"host", "port", "from_email"})
      [] OTHER -> FALSE

\* delete(EmailProvider).where(EmailProvider.inbox_id ...)
WithoutScope(table, inbox_id) == {row \in table : row.inbox_id # inbox_id}

\* PUT /config/email-provider; slugs are the inboxes that exist, slug the
\* inbox of the body (NoInbox when omitted).
set_email_provider(table, slugs, slug, type, config) ==
    IF type \notin VALID_PROVIDER_TYPES
    THEN [status |-> 400, table |-> table]
    ELSE IF ~validate_provider_config(type, config)
    THEN [status |-> 400, table |-> table]
    ELSE IF slug # NoInbox /\ slug \notin slugs
    THEN [status |-> 404, table |-> table]
    ELSE [status |-> 200,
          table |-> WithoutScope(table, slug)
                       \cup {EmailProvider(slug, type, config, TRUE)}]

\* DELETE /config/email-provider
delete_email_provider(table, slugs, slug) ==
    IF slug # NoInbox /\ slug \notin slugs
    THEN [status |-> 404, table |-> table]
    ELSE [status |-> 204, table |-> WithoutScope(table, slug)]

\* The provider as the handler's route sees it.
ProviderOutcome(provider) ==
    CASE provider.kind = "raise" -> "error"
      [] provider.kind = "null" -> "none"
      [] OTHER -> "provider"

(***************************************************************************)
(* SpecProvider: the provider table is written through the PUT and DELETE  *)
(* endpoints, for two inboxes and the global scope, and events arrive at   *)
(* an inbox with one email channel.  The table starts empty or with rows   *)
(* that were switched off in the database.                                 *)
(***************************************************************************)
MaxProviderEvents == 1

TokenPath ==
    <<"/", "a", "p", "p", "/", "c", "o", "n", "f", "i", "g", "/", "g", "m",
      "a", "i", "l", "/", "t">>
EscapingPath ==
    <<"/", "a", "p", "p", "/", "c", "o", "n", "f", "i", "g", "/", "g", "m",
      "a", "i", "l", "/", ".", ".", "/", "t">>
OutsidePath == <<"/", "s", "r", "v", "/", "t">>

Fields(keys, value) == JDict([i \in 1..Len(keys) |-> <<keys[i], value>>])

GmailConfig(token_path) ==
    JDict(<< <<"credentials_path", JStr(TokenPath)>>,
             <<"token_path", JStr(token_path)>>,
             <<"sender_email", JStr(MailA)>> >>)

ProviderSlugs == {"contact", "other"}

\* The bodies of PUT /config/email-provider.
ProviderBodies ==
    { [type |-> "gmail", config |-> GmailConfig(TokenPath)],
      [type |-> "gmail", config |-> GmailConfig(EscapingPath)],
      [type |-> "gmail", config |-> GmailConfig(OutsidePath)],
      [type |-> "resend",
       config |-> Fields(<<"api_key", "from_email">>, JStr(MailA))],
      [type |-> "resend", config |-> Fields(<<"from_email">>, JStr(MailA))],
      [type |-> "sendgrid",
       config |-> Fields(<<"api_key", "from_email">>, JStr(MailB))],
      [type |-> "smtp",
       config |-> Fields(<<"host", "port", "username", "password",
                           "from_email">>, JStr(MailA))],
      [type |-> "smtp",
       config |-> Fields(<<"host", "port", "from_email">>, JStr(MailA))],
      [type |-> "mailgun",
       config |-> Fields(<<"api_key", "from_email">>, JStr(MailA))] }

SwitchedOff(inbox_id) ==
    EmailProvider(inbox_id, "resend",
                  Fields(<<"api_key", "from_email">>, JStr(MailB)), FALSE)

InitProvider ==
    /\ EnvInit /\ AuthInit0 /\ RateInit0 /\ IpInit0 /\ FetchInit0
    /\ inbox = WebhookInbox("contact", TRUE, "", <<>>, <<>>)
    /\ channels = << SoundChannel(1, "email") >>
    /\ hookStore = [k \in EmailRateKeys |-> NoCounter]
    /\ events = 0
    /\ hookRes = Idle
    /\ mailLog = <<>>
    /\ emailProviders \in
          { {}, {SwitchedOff("contact")}, {SwitchedOff(NoInbox)},
            {SwitchedOff("contact"), SwitchedOff(NoInbox)} }
    /\ settings \in
          { [gmail_token_exists |-> FALSE, gmail_sender_email |-> <<>>],
            [gmail_token_exists |-> FALSE, gmail_sender_email |-> MailB],
            [gmail_token_exists |-> TRUE, gmail_sender_email |-> <<>>],
            [gmail_token_exists |-> TRUE, gmail_sender_email |-> MailB] }

Configured(result) ==
    /\ emailProviders' = result.table
    /\ hookRes' = [op |-> "configured", status |-> result.status]

SetEmailProvider ==
    /\ \E slug \in ProviderSlugs \cup {NoInbox, "ghost"},
          body \in ProviderBodies :
          Configured(set_email_provider(emailProviders, ProviderSlugs, slug,
                                        body.type, body.config))
    /\ UNCHANGED <<envVars, authVars, rateVars, ipVars, fetchVars, inbox,
                   channels, hookStore, events, mailLog, settings>>

DeleteEmailProvider ==
    /\ \E slug \in ProviderSlugs \cup {NoInbox, "ghost"} :
          Configured(delete_email_provider(emailProviders, ProviderSlugs,
                                           slug))
    /\ UNCHANGED <<envVars, authVars, rateVars, ipVars, fetchVars, inbox,
                   channels, hookStore, events, mailLog, settings>>

ProviderEnv(provider) ==
    [HookEnv(Fair) EXCEPT !.provider = ProviderOutcome(provider)]

Resolving(slug, provider, result) ==
    /\ hookRes' = [op |-> "received", inbox_id |-> slug,
                   provider |-> provider, response |-> result.response,
                   trace |-> result.trace]
    /\ hookStore' = result.store
    /\ events' = events + 1

\* An event for the inbox slug, whose one channel is an email channel.
ProviderEventAt(slug, provider) ==
    Resolving(slug, provider,
              receive_webhook(
                  [Request(Json, JsonPayload(FormBody)) EXCEPT !.slug = slug],
                  [inbox EXCEPT !.slug = slug], channels, hookStore,
                  events + 1, ProviderEnv(provider)))

ProviderEvent ==
    /\ events < MaxProviderEvents
    /\ \E slug \in ProviderSlugs :
          ProviderEventAt(slug, resolve_email_provider(emailProviders,
                                                       settings, slug))
    /\ UNCHANGED <<envVars, authVars, rateVars, ipVars, fetchVars, inbox,
                   channels, mailLog, emailProviders, settings>>

NextProvider == SetEmailProvider \/ DeleteEmailProvider \/ ProviderEvent

SpecProvider == InitProvider /\ [][NextProvider]_vars

\* The provider the order of precedence names: the active row of the
\* inbox, else the active global row, else the settings' transport when
\* its token file exists and its sender is set, else none.
Preferred(table, conf, inbox_id) ==
    IF \E row \in table : row.inbox_id = inbox_id /\ row.is_active
    THEN LET row == CHOOSE row \in table :
                        row.inbox_id = inbox_id /\ row.is_active
         IN  Provider(row.type, row.config)
    ELSE IF \E row \in table : row.inbox_id = NoInbox /\ row.is_active
    THEN LET row == CHOOSE row \in table :
                        row.inbox_id = NoInbox /\ row.is_active
         IN  Provider(row.type, row.config)
    ELSE IF conf.gmail_token_exists /\ conf.gmail_sender_email # <<>>
    THEN Provider("gmail", JDict(<< <<"sender_email",
                                      JStr(conf.gmail_sender_email)>> >>))
    ELSE None

\* C12: for an event of an inbox the resolution returns the active provider
\* of that inbox, else the active global one, else the legacy transport
\* when its token file and sender exist, else none; with none the event is
\* acknowledged, no email is sent and nothing is reported as failed.  A
\* switched-off row is never the one returned.
C12_ResolutionPrecedence ==
    hookRes.op = "received" =>
        /\ hookRes.provider
              = Preferred(emailProviders, settings, hookRes.inbox_id)
        /\ \A row \in emailProviders :
              ~row.is_active => hookRes.provider # Provider(row.type, row.config)
        /\ hookRes.provider = None =>
              /\ hookRes.response.status = 200
              /\ \A i \in 1..Len(hookRes.trace) :
                    /\ hookRes.trace[i].e # "email"
                    /\ hookRes.trace[i] # Logged("notification dispatch failed")

(***************************************************************************)
(*     Scope gate (auth.py, require_scope).  The scopes of a credential    *)
(*     are a list of the names in ALL_SCOPES (schemas/auth.py refuses      *)
(*     other names when the credential is created).                        *)
(***************************************************************************)
ALL_SCOPES == <<"webhooks", "admin">>

\* name in scopes
InList(name, scopes) == \E i \in 1..Len(scopes) : scopes[i] = name

\* The checker without the admin pass.
require_scope_literal(scope, scopes) ==
    IF ~InList(scope, scopes) THEN 403 ELSE 200

\* The checker of require_scope(scope), for a key with these scopes: the
\* status of the call.
require_scope(scope, scopes) ==
    IF InList("admin", scopes) THEN 200
    ELSE IF ~InList(scope, scopes) THEN 403
    ELSE 200

\* The scopes of the ApiKey that get_current_key returned.
ScopesOf(identity, rows) ==
    IF identity = "admin" THEN ALL_SCOPES ELSE rows[identity].scopes

\* Depends(get_current_key), then the checker.
ScopedStatus(scope, r) ==
    IF r.status # 200 THEN r.status
    ELSE require_scope(scope, ScopesOf(r.identity, r.rows))

(***************************************************************************)
(* SpecScope: two credentials with every list of scopes, the admin secret  *)
(* and a wrong secret are presented to endpoints that ask for either       *)
(* scope.                                                                  *)
(***************************************************************************)
MaxScopeFails == 1

ScopeLists ==
    { <<>>, <<"webhooks">>, <<"admin">>, <<"webhooks", "admin">>,
      <<"admin", "webhooks">>, <<"webhooks", "webhooks">> }

ScopedKeyRow(id, scopes) ==
    [field \in DOMAIN ApiKeyRow(id, TRUE, TRUE) \cup {"scopes"} |->
        IF field = "scopes" THEN scopes ELSE ApiKeyRow(id, TRUE, TRUE)[field]]

RequestedScopes == {"webhooks", "admin"}

PresentedScope == {SecretA1, SecretB, admin_api_key, WrongSecret, NoSecret}

InitScope ==
    /\ EnvInit /\ RateInit0 /\ IpInit0 /\ FetchInit0 /\ HookInit0
    /\ authFail = [ip \in Addrs |-> NoCounter]
    /\ \E first \in ScopeLists, second \in ScopeLists :
          apiKeys = [id \in {"k1", "k3"} |->
                        ScopedKeyRow(id, IF id = "k1" THEN first ELSE second)]
    /\ authRes = Idle
    /\ failLog = [ip \in Addrs |-> <<>>]
    /\ authCalls = NoCalls

Scoped(ip, api_key, scope, r) ==
    /\ authFail' = r.counters
    /\ apiKeys' = r.rows
    /\ failLog' = [failLog EXCEPT ![ip] =
                      IF r.status = 401 /\ r.adminCompared
                      THEN Append(@, now) ELSE @]
    /\ authRes' = [op |-> "scoped", ip |-> ip, api_key |-> api_key,
                   scope |-> scope, identity |-> r.identity,
                   authenticated |-> r.status = 200,
                   status |-> ScopedStatus(scope, r)]

ScopedCall ==
    /\ \E ip \in Addrs, api_key \in PresentedScope, scope \in RequestedScopes :
          /\ Scoped(ip, api_key, scope,
                    get_current_key(ip, api_key, authFail, apiKeys, storeUp,
                                    now))
          /\ Len(failLog'[ip]) <= MaxScopeFails
    /\ UNCHANGED <<envVars, rateVars, ipVars, fetchVars, hookVars, authCalls>>

NextScope == ScopedCall \/ StoreFlip

SpecScope == InitScope /\ [][NextScope]_vars

\* The scopes stored for the credential that was presented.
HeldScopes == apiKeys[authRes.identity].scopes

\* C13: an authenticated call is allowed when the identity holds the admin
\* scope or the requested scope, and is refused with 403 otherwise; the
\* identity of the admin secret is allowed whatever scope is requested.
C13_ScopeGate ==
    authRes.op = "scoped" /\ authRes.authenticated =>
        IF authRes.identity = "admin" THEN authRes.status = 200
        ELSE IF "admin" \in {HeldScopes[i] : i \in 1..Len(HeldScopes)}
                \/ authRes.scope \in {HeldScopes[i] : i \in 1..Len(HeldScopes)}
        THEN authRes.status = 200
        ELSE authRes.status = 403

\* A credential with the admin scope alone passes a request for 'webhooks'.
C13_Witness ==
    /\ authRes.op = "scoped" /\ authRes.authenticated
    /\ authRes.identity = "k1"
    /\ HeldScopes = <<"admin">>
    /\ authRes.scope = "webhooks"
    /\ authRes.status = 200

(***************************************************************************)
(*     Request size guard (middleware.py, RequestSizeLimitMiddleware).     *)
(*     main.py adds it before RateLimitMiddleware, so the rate limiter is  *)
(*     the outer of the two: a request comes to the size guard through     *)
(*     the rate limiter's call_next.  The guard looks at the header only;  *)
(*     the body is read by the handler.                                    *)
(***************************************************************************)
MAX_BODY_SIZE == 2 * 1024 * 1024

\* request.headers.get("content-length") when the header is absent
NoHeader == <<"None">>

\* The comparison one byte early: exactly MAX_BODY_SIZE is refused.
RequestSizeLimitDispatch_inclusive(path, content_length) ==
    IF path = HealthPath THEN [status |-> 200, reached |-> TRUE]
    ELSE IF /\ content_length # NoHeader
            /\ content_length # <<>>
            /\ ToInt(content_length, 10) >= MAX_BODY_SIZE
    THEN [status |-> 413, reached |-> FALSE]
    ELSE [status |-> 200, reached |-> TRUE]

\* RequestSizeLimitMiddleware.dispatch; reached when call_next is called,
\* status 200 standing for the answer that comes back from it.
RequestSizeLimitDispatch(path, content_length) ==
    IF path = HealthPath THEN [status |-> 200, reached |-> TRUE]
    ELSE IF /\ content_length # NoHeader
            /\ content_length # <<>>
            /\ ToInt(content_length, 10) > MAX_BODY_SIZE
    THEN [status |-> 413, reached |-> FALSE]
    ELSE [status |-> 200, reached |-> TRUE]

\* The two middlewares in the order main.py stacks them.
MiddlewareStack(path, content_length, limited) ==
    IF ~limited.reached
    THEN [status |-> limited.status, reached |-> FALSE, zsets |-> limited.zsets]
    ELSE [status |-> RequestSizeLimitDispatch(path, content_length).status,
          reached |-> RequestSizeLimitDispatch(path, content_length).reached,
          zsets |-> limited.zsets]

(***************************************************************************)
(* SpecSize: requests with and without a declared size, around the limit,  *)
(* to the health-check path and to others, with the counter store up or    *)
(* down.                                                                   *)
(***************************************************************************)
MaxSizeReq == 2

SizePaths == {HealthPath, "/health/", "/hooks/contact", "/v1/hooks/inboxes"}

\* The sizes a request declares, each with the header text that says it.
DeclaredSizes ==
    { [n |-> n, text |-> ToText(n, 10)] :
        n \in {0, 1, MAX_BODY_SIZE - 1, MAX_BODY_SIZE, MAX_BODY_SIZE + 1,
               2 * MAX_BODY_SIZE, 10 * MAX_BODY_SIZE} }
    \cup { [n |-> MAX_BODY_SIZE + 1,
            text |-> <<"0", "0">> \o ToText(MAX_BODY_SIZE + 1, 10)],
           [n |-> -1, text |-> NoHeader] }

InitSize == EnvInit /\ AuthInit0 /\ RateInit0 /\ IpInit0 /\ FetchInit0 /\ HookInit0

Sized(ip, path, size, r) ==
    /\ rlZset' = r.zsets
    /\ reqLog' = [reqLog EXCEPT ![ip] =
                     IF path # HealthPath /\ storeUp THEN Append(@, now) ELSE @]
    /\ rateRes' = [op |-> "size", ip |-> ip, path |-> path, declared |-> size.n,
                   up |-> storeUp, status |-> r.status, reached |-> r.reached]

SizeRequest ==
    /\ \E ip \in Addrs, path \in SizePaths, size \in DeclaredSizes :
          /\ Len(reqLog[ip]) < MaxSizeReq
          /\ Sized(ip, path, size,
                   MiddlewareStack(path, size.text,
                       RateLimitDispatch(ip, path, rlZset, storeUp, now)))
    /\ UNCHANGED <<envVars, authVars, ipVars, fetchVars, hookVars>>

NextSize == SizeRequest \/ StoreFlip

SpecSize == InitSize /\ [][NextSize]_vars

SourceKey == <<"s", "o", "u", "r", "c", "e">>

skip_keys == {TokenKey, RawKey, SourceKey}

DISPLAY_KEYS ==
    << <<"f", "u", "l", "l", "_", "n", "a", "m", "e">>, NameKey,
       <<"l", "o", "g", "i", "n">>, <<"t", "i", "t", "l", "e">>,
       <<"l", "a", "b", "e", "l">>, EmailKey,
       <<"h", "t", "m", "l", "_", "u", "r", "l">>, UrlKey, <<"i", "d">> >>

\* isinstance(val, (dict, list))
IsNested(val) == val.kind \in {"dict", "list"}

\* str(val) of a primitive
PyStr(val) ==
    CASE val.kind = "str" -> val.s
      [] val.kind = "num" -> ToText(val.n, 10)
      [] val.kind = "bool" ->
           IF val.b THEN <<"T", "r", "u", "e">> ELSE <<"F", "a", "l", "s", "e">>
      [] OTHER -> <<"N", "o", "n", "e">>

\* sep.join(parts)
RECURSIVE JoinText(_, _)
JoinText(parts, sep) ==
    IF parts = <<>> THEN <<>>
    ELSE IF Len(parts) = 1 THEN parts[1]
    ELSE JoinText(Front(parts), sep) \o sep \o parts[Len(parts)]

\* f"{text[:max_len]}..." if len(text) > max_len else text
Truncated(text, max_len) ==
    IF Len(text) > max_len
    THEN SubSeq(text, 1, max_len) \o <<".", ".", ".">>
    ELSE text

\* json.dumps(val, default=str)
RECURSIVE Dumps(_)
Dumps(val) ==
    CASE val.kind = "str" -> <<"\"">> \o val.s \o <<"\"">>
      [] val.kind = "num" -> ToText(val.n, 10)
      [] val.kind = "bool" ->
           IF val.b THEN <<"t", "r", "u", "e">> ELSE <<"f", "a", "l", "s", "e">>
      [] val.kind = "list" ->
           <<"[">> \o JoinText([i \in 1..Len(val.items) |-> Dumps(val.items[i])],
                               <<",", " ">>) \o <<"]">>
      [] val.kind = "dict" ->
           <<"{">> \o JoinText([i \in 1..Len(val.items) |->
                                  <<"\"">> \o val.items[i][1] \o <<"\"", ":", " ">>
                                  \o Dumps(val.items[i][2])],
                               <<",", " ">>) \o <<"}">>
      [] OTHER -> <<"n", "u", "l", "l">>

\* The display keys of a dict that hold a primitive other than None.
Displayed(val) ==
    SelectSeq(DISPLAY_KEYS,
              LAMBDA key : /\ HasKey(val, key)
                           /\ DictGet(val, key, None) # None
                           /\ ~IsNested(DictGet(val, key, None)))

RECURSIVE format_value(_, _)
format_value(val, max_len) ==
    IF val = None THEN <<>>
    ELSE IF ~IsNested(val) THEN PyStr(val)
    ELSE IF val.kind = "list"
    THEN IF val.items = <<>> THEN <<"(", "e", "m", "p", "t", "y", ")">>
         ELSE IF \A i \in 1..Len(val.items) : ~IsNested(val.items[i])
         THEN JoinText([i \in 1..Len(val.items) |-> PyStr(val.items[i])],
                       <<",", " ">>)
         ELSE Truncated(JoinText([i \in 1..Len(val.items) |->
                                     format_value(val.items[i], 80)],
                                 <<",", " ">>), max_len)
    ELSE IF Displayed(val) # <<>>
    THEN PyStr(DictGet(val, Displayed(val)[1], None))
    ELSE Truncated(Dumps(val), max_len)

\* Case changes of str.title(): a letter after a letter is small, any
\* other letter is a capital.
TitleChar(text, i) ==
    IF ~IsAlpha(text[i]) THEN text[i]
    ELSE IF i > 1 /\ IsAlpha(text[i - 1])
    THEN Smalls[Max(IndexOf(Smalls, text[i]), IndexOf(Capitals, text[i]))]
    ELSE Capitals[Max(IndexOf(Smalls, text[i]), IndexOf(Capitals, text[i]))]

\* k.replace("_", " ").title()
FieldName(k) ==
    [i \in 1..Len(k) |->
        IF k[i] = "_" THEN " " ELSE TitleChar(k, i)]

\* One entry of fields (lines 27-31).
DiscordField(k, formatted) ==
    [name |-> FieldName(k),
     value |-> SubSeq(formatted, 1, IF Len(formatted) < 1024
                                    THEN Len(formatted) ELSE 1024),
     inline |-> Len(formatted) < 50]

\* The loop of lines 24-31.
RECURSIVE DiscordFields(_)
DiscordFields(items) ==
    IF items = <<>> THEN <<>>
    ELSE DiscordFields(Front(items))
         \o IF Truthy(items[Len(items)][2])
               /\ items[Len(items)][1] \notin skip_keys
            THEN << DiscordField(items[Len(items)][1],
                                 format_value(items[Len(items)][2], 1024)) >>
            ELSE <<>>

\* format_discord(config, ctx); body is json.dumps of the embed, kept here
\* as the embed itself.
format_discord(config, ctx) ==
    IF ~IsDict(config) \/ ~IsDict(ctx.body) THEN Raised
    ELSE [kind |-> "payload", method |-> "POST",
          url |-> DictGet(config, WebhookUrlKey, JStr(<<>>)),
          forwarded_from |-> ctx.slug,
          title |-> ctx.subject_prefix,
          fields |-> DiscordFields(ctx.body.items),
          footer |-> ctx.slug]

(***************************************************************************)
(* SpecFormat: the formatter is applied to payloads of up to two keys,     *)
(* internal and not, with values of every JSON kind, empty and not, and    *)
(* to the payload with a name, an email and a challenge token.             *)
(***************************************************************************)
FormatKeys ==
    {NameKey, EmailKey, TokenKey, RawKey, SourceKey,
     <<"f", "_", "n">>, <<"S", "o", "u", "r", "c", "e">>}

FormatValues ==
    { JStr(<<"A", "l">>), JStr(<<>>), JNum(0), JNum(5), JBool(TRUE),
      JBool(FALSE), None, JList(<<>>), JList(<<JStr(<<"a">>), JNum(5)>>),
      JList(<<JList(<<>>)>>), JDict(<<>>),
      JDict(<< <<NameKey, JStr(<<"A", "l">>)>> >>),
      JDict(<< <<<<"x">>, JNum(1)>> >>) }

FormatPayloads ==
    { JDict(<< <<k, v>> >>) : k \in FormatKeys, v \in FormatValues }
    \cup { JDict(<< <<k1, v1>>, <<k2, v2>> >>) :
             k1 \in {NameKey, TokenKey, <<"f", "_", "n">>},
             k2 \in {EmailKey, RawKey, SourceKey},
             v1 \in FormatValues, v2 \in FormatValues }
    \cup { TokenBody, JDict(<<>>), ListBody }

FormatConfigs ==
    {Config(WebhookUrlKey, JStr(DiscordUrl)), Config(UrlKey, JStr(DiscordUrl))}

InitFormat ==
    /\ EnvInit /\ AuthInit0 /\ RateInit0 /\ IpInit0 /\ FetchInit0
    /\ inbox = [is_active |-> FALSE]
    /\ channels = <<>>
    /\ hookStore = [k \in EmailRateKeys |-> NoCounter]
    /\ events = 0
    /\ mailLog = <<>>
    /\ ProviderInit0
    /\ \E payload \in FormatPayloads, config \in FormatConfigs :
          hookRes = [op |-> "payload", body |-> payload, config |-> config]

FormatDiscord ==
    /\ hookRes.op = "payload"
    /\ hookRes' = [op |-> "formatted", body |-> hookRes.body,
                   out |-> format_discord(hookRes.config,
                              [body |-> hookRes.body, slug |-> "contact",
                               subject_prefix |-> "[HookForms]"])]
    /\ UNCHANGED <<envVars, authVars, rateVars, ipVars, fetchVars, inbox,
                   channels, hookStore, events, mailLog, emailProviders,
                   settings>>

NextFormat == FormatDiscord

SpecFormat == InitFormat /\ [][NextFormat]_vars

\* A value that is not null, not the empty text, not the empty list and
\* not the empty object.
NonEmpty(value) ==
    value \notin {None, JStr(<<>>), JList(<<>>), JDict(<<>>)}

\* The entries of a payload that are to get a field, in payload order.
Shown(body) ==
    SelectSeq(body.items,
              LAMBDA item : item[1] \notin {TokenKey, RawKey, SourceKey}
                            /\ NonEmpty(item[2]))

\* C15: the output for a payload has one field, in payload order, for
\* every key with a non-empty value that is not cf-turnstile-response,
\* raw or source, and no other field.
C15_DiscordFields ==
    (hookRes.op = "formatted" /\ IsDict(hookRes.body)) =>
        /\ Len(hookRes.out.fields) = Len(Shown(hookRes.body))
        /\ \A i \in 1..Len(hookRes.out.fields) :
              hookRes.out.fields[i].name = FieldName(Shown(hookRes.body)[i][1])

\* The entries of a trace that only the named route leaves: deliveries are
\* the dispatcher's, forwards the legacy route's.
RouteEntries(trace, kind) == SelectSeq(trace, LAMBDA entry : entry.e = kind)

\* C16: for an accepted event with a non-empty body, an inbox without
\* channel rows is served by the legacy forward and notify paths and never
\* by the dispatcher, and an inbox with at least one channel row is served
\* by the dispatcher and never by the legacy paths.
C16_OneRoute ==
    (hookRes.op = "received" /\ hookRes.persisted /\ Truthy(hookRes.body)) =>
        /\ channels = <<>> =>
              /\ RouteEntries(hookRes.trace, "deliver") = <<>>
              /\ inbox.forward_url # <<>> =>
                    RouteEntries(hookRes.trace, "forward") # <<>>
        /\ channels # <<>> => RouteEntries(hookRes.trace, "forward") = <<>>

(***************************************************************************)
(*     Inbox management (routers/webhooks.py): create_inbox and            *)
(*     update_inbox.  The table holds the inbox 'contact' or no row; an    *)
(*     absent URL (null) is written <<>> like the empty one.  update_data  *)
(*     is the function from the fields the request sets to their values.   *)
(***************************************************************************)
NoRow == [is_active |-> FALSE]

\* update(WebhookInbox).values(**update_data)
Updated(row, update_data) ==
    [field \in DOMAIN row |->
        IF field \in DOMAIN update_data THEN update_data[field] ELSE row[field]]

\* update_inbox without the check of the forward URL.
update_inbox_unchecked(row, slug, update_data, resolver) ==
    IF row = NoRow \/ row.slug # slug THEN [status |-> 404, row |-> row]
    ELSE [status |-> 200, row |-> Updated(row, update_data)]

\* PATCH /inboxes/{slug}
update_inbox(row, slug, update_data, resolver) ==
    IF row = NoRow \/ row.slug # slug THEN [status |-> 404, row |-> row]
    ELSE IF /\ "forward_url" \in DOMAIN update_data
            /\ update_data["forward_url"] # <<>>
            /\ ~is_safe_url(update_data["forward_url"], resolver).ok
    THEN [status |-> 400, row |-> row]
    ELSE [status |-> 200, row |-> Updated(row, update_data)]

\* POST /inboxes; the slug is unique, a second row with it fails the commit.
create_inbox(row, body, resolver) ==
    IF body.forward_url # <<>> /\ ~is_safe_url(body.forward_url, resolver).ok
    THEN [status |-> 400, row |-> row]
    ELSE IF row # NoRow /\ row.slug = body.slug
    THEN [status |-> 500, row |-> row]
    ELSE [status |-> 201,
          row |-> WebhookInbox(body.slug, TRUE, body.turnstile_secret,
                               body.forward_url, body.notify_email)]

\* DELETE /inboxes/{slug}
delete_inbox(row, slug) ==
    IF row = NoRow \/ row.slug # slug THEN [status |-> 404, row |-> row]
    ELSE [status |-> 204, row |-> NoRow]

(***************************************************************************)
(* SpecInbox: the inbox is created, updated and deleted with forward URLs  *)
(* that is_safe_url accepts or refuses, while the resolver's answer for    *)
(* the one known name changes.                                             *)
(***************************************************************************)
OkUrl == Url(http, <<>>, <<"o", "k">>, <<>>)

ForwardUrls ==
    { <<>>, OkUrl, Url(https, <<>>, PublicAddr, <<>>),
      Url(http, <<>>, LoopbackAddr, <<>>),
      Url(<<"f", "t", "p">>, <<>>, <<"o", "k">>, <<>>) }

UpdateBodies ==
    { [forward_url |-> url] : url \in ForwardUrls }
    \cup { [forward_url |-> url, notify_email |-> MailList] :
              url \in {OkUrl, Url(http, <<>>, LoopbackAddr, <<>>)} }
    \cup { [notify_email |-> MailList], [is_active |-> FALSE],
           [field \in {} |-> <<>>] }

CreateBodies ==
    { [slug |-> "contact", turnstile_secret |-> "", forward_url |-> url,
       notify_email |-> <<>>] : url \in ForwardUrls }

InitInbox ==
    /\ EnvInit /\ AuthInit0 /\ RateInit0 /\ IpInit0
    /\ dns = [h \in {<<"o", "k">>} |-> Resolved(<<PublicAddr>>)]
    /\ safeRes = Idle
    /\ fetch = Idle
    /\ conns = <<>>
    /\ inbox \in {NoRow, WebhookInbox("contact", TRUE, "", <<>>, <<>>)}
    /\ channels = <<>>
    /\ hookStore = [k \in EmailRateKeys |-> NoCounter]
    /\ events = 0
    /\ hookRes = Idle
    /\ mailLog = <<>>
    /\ ProviderInit0

Managed(op, forward_url, result) ==
    /\ inbox' = result.row
    /\ hookRes' = [op |-> op, forward_url |-> forward_url,
                   status |-> result.status, before |-> inbox,
                   resolver |-> dns]

CreateInbox ==
    /\ \E body \in CreateBodies :
          Managed("create_inbox", body.forward_url,
                  create_inbox(inbox, body, dns))
    /\ UNCHANGED <<envVars, authVars, rateVars, ipVars, fetchVars, channels,
                   hookStore, events, mailLog, emailProviders, settings>>

UpdateInbox ==
    /\ \E slug \in {"contact", "other"}, update_data \in UpdateBodies :
          Managed("update_inbox",
                  IF "forward_url" \in DOMAIN update_data
                  THEN update_data["forward_url"] ELSE <<>>,
                  update_inbox(inbox, slug, update_data, dns))
    /\ UNCHANGED <<envVars, authVars, rateVars, ipVars, fetchVars, channels,
                   hookStore, events, mailLog, emailProviders, settings>>

DeleteInbox ==
    /\ Managed("delete_inbox", <<>>, delete_inbox(inbox, "contact"))
    /\ UNCHANGED <<envVars, authVars, rateVars, ipVars, fetchVars, channels,
                   hookStore, events, mailLog, emailProviders, settings>>

NextInbox == CreateInbox \/ UpdateInbox \/ DeleteInbox \/ DnsChange

SpecInbox == InitInbox /\ [][NextInbox]_vars

\* C17: a call of create_inbox or update_inbox that carries a non-empty
\* forward URL which is_safe_url refuses, with the resolver as it is at
\* the call, answers 400 and leaves the stored inbox as it was; a call that
\* stores the URL carried one that is_safe_url accepted.
C17_ForwardUrlChecked ==
    (/\ hookRes.op \in {"create_inbox", "update_inbox"}
     /\ hookRes.forward_url # <<>>)
    => IF is_safe_url(hookRes.forward_url, hookRes.resolver).ok
       THEN hookRes.status \in {200, 201} => inbox.forward_url = hookRes.forward_url
       ELSE \/ hookRes.status = 400 /\ inbox = hookRes.before
            \/ hookRes.status = 404 /\ inbox = hookRes.before

\* An update with a loopback URL is refused and the URL stored before it
\* is still there.
C17_Witness ==
    /\ hookRes.op = "update_inbox"
    /\ hookRes.forward_url = Url(http, <<>>, LoopbackAddr, <<>>)
    /\ hookRes.status = 400
    /\ inbox # NoRow
    /\ inbox.forward_url = OkUrl

\* The places of a trace where the event is committed.
Commits(trace) == {i \in 1..Len(trace) : trace[i].e = "commit"}

\* The places of a trace where a notification is attempted.
Attempted(trace) ==
    {i \in 1..Len(trace) : trace[i].e \in {"deliver", "forward", "email"}}

\* C18: every dispatch attempt of a call comes after the commit of its
\* event, and a call that persists no event (unknown or inactive inbox,
\* failed challenge) attempts no dispatch.
C18_CommitBeforeDispatch ==
    hookRes.op = "received" =>
        /\ hookRes.persisted =>
              /\ Cardinality(Commits(hookRes.trace)) = 1
              /\ \A i \in Attempted(hookRes.trace) :
                    \A c \in Commits(hookRes.trace) : c < i
        /\ ~hookRes.persisted =>
              /\ Commits(hookRes.trace) = {}
              /\ Attempted(hookRes.trace) = {}

\* An event was committed and then delivered to a channel.
C18_Witness ==
    /\ hookRes.op = "received"
    /\ hookRes.persisted
    /\ \E i \in Attempted(hookRes.trace) : hookRes.trace[i].e = "deliver"

\* The places of a trace with an entry of the kind.
Places(trace, kind) == {i \in 1..Len(trace) : trace[i].e = kind}

\* The places where the counter step of a call ended without a count: the
\* store did not answer.
Uncounted(trace) ==
    {i \in 1..Len(trace) :
        trace[i] = Logged("email rate limiter unavailable")}

LockoutStep(locked) ==
    IF locked
    THEN /\ authRes' = [op |-> "step", at |-> "lockout", status |-> 429]
         /\ UNCHANGED authCalls
    ELSE /\ authRes' = [op |-> "step", at |-> "lockout", status |-> 0]
         /\ authCalls' = [authCalls EXCEPT !.checked = @ + 1]

(***************************************************************************)
(* SpecRace: up to MaxRaceCalls calls with a wrong secret from one address *)
(* are in flight together, inside one window and with the counter store    *)
(* reachable.                                                              *)
(***************************************************************************)
MaxRaceCalls == 11

InitRace == EnvInit /\ AuthInit0 /\ RateInit0 /\ IpInit0 /\ FetchInit0 /\ HookInit0

\* Lines 88-96: a request arrives and passes or fails the lockout check.
RaceArrive ==
    /\ authCalls.checked + authCalls.failed + Len(failLog["a1"]) < MaxRaceCalls
    /\ LockoutStep(_check_lockout(authFail["a1"], storeUp, now))
    /\ UNCHANGED <<envVars, authFail, apiKeys, failLog, rateVars, ipVars,
                   fetchVars, hookVars>>

\* Lines 107-127: the candidates are fetched and none verifies.
RaceVerify ==
    /\ authCalls.checked > 0
    /\ \A id \in Candidates(apiKeys, WrongSecret) :
          ~verify_key(WrongSecret, apiKeys[id].key_hash)
    /\ authCalls' = [authCalls EXCEPT !.checked = @ - 1, !.failed = @ + 1]
    /\ failLog' = [failLog EXCEPT !["a1"] = Append(@, now)]
    /\ authRes' = [op |-> "step", at |-> "verify", status |-> 0]
    /\ UNCHANGED <<envVars, authFail, apiKeys, rateVars, ipVars, fetchVars,
                   hookVars>>

\* Lines 138-140: await _record_failure(client_ip), then 401.
RaceRecord ==
    /\ authCalls.failed > 0
    /\ authCalls' = [authCalls EXCEPT !.failed = @ - 1]
    /\ authFail' = [authFail EXCEPT !["a1"] = _record_failure(@, storeUp, now)]
    /\ authRes' = [op |-> "step", at |-> "record", status |-> 401]
    /\ UNCHANGED <<envVars, apiKeys, failLog, rateVars, ipVars, fetchVars,
                   hookVars>>

NextRace == RaceArrive \/ RaceVerify \/ RaceRecord

SpecRace == InitRace /\ [][NextRace]_vars

\* C20: however the calls from one address interleave, at most 10 of them
\* have their secret compared and refused within one 300-second window.
C20_LockoutUnderInterleaving ==
    Len(RecentFails(failLog["a1"], now)) <= _LOCKOUT_THRESHOLD

(***************************************************************************)
(*     The counters as the store sees them (auth.py, dispatcher.py,        *)
(*     webhooks.py).  INCR and EXPIRE are two calls with an await between  *)
(*     them: the call that got 1 back from INCR goes on to EXPIRE, and an  *)
(*     exception of either call is swallowed by the enclosing try.  The    *)
(*     calls that have incremented and not yet passed `if count == 1` are  *)
(*     kept as the sequence of the counts INCR returned to them.           *)
(***************************************************************************)
\* count = await redis_client.incr(key): the counter and the pending counts
\* afterwards; a store that does not answer raises and the call is over.
IncrCall(counter, pending, up, t) ==
    IF up
    THEN [counter |-> RedisIncr(Purge(counter, t)),
          pending |-> Append(pending, RedisIncr(Purge(counter, t)).n)]
    ELSE [counter |-> counter, pending |-> pending]

\* if count == 1: await redis_client.expire(key, seconds), for the call at
\* the head of the pending ones.  EXPIRE on a key that is gone does nothing.
ExpireCall(counter, pending, seconds, up, t) ==
    [counter |-> IF Head(pending) = 1 /\ up /\ Purge(counter, t).n > 0
                 THEN RedisExpire(Purge(counter, t), seconds, t)
                 ELSE Purge(counter, t),
     pending |-> Tail(pending)]

(***************************************************************************)
(* SpecTtl: failures from address a1 and events of one inbox on both       *)
(* notification routes, step by step, while the counter store comes and    *)
(* goes and the clock advances by whole lockout windows.                   *)
(***************************************************************************)
MaxTtlCount == 2
MaxTtlPending == 2
TtlTicks == 2

TtlStep == Ms(_LOCKOUT_WINDOW)

InitTtl ==
    /\ EnvInit /\ RateInit0 /\ IpInit0 /\ FetchInit0
    /\ authFail = [ip \in Addrs |-> NoCounter]
    /\ apiKeys = [id \in {"k3"} |-> ApiKeyRow(id, TRUE, TRUE)]
    /\ authRes = [op |-> "record", at |-> "start", added |-> 0, pending |-> <<>>]
    /\ failLog = [ip \in Addrs |-> <<>>]
    /\ authCalls = NoCalls
    /\ inbox = [is_active |-> FALSE]
    /\ channels = <<>>
    /\ hookStore = [k \in EmailRateKeys |-> NoCounter]
    /\ events = 0
    /\ hookRes = [op |-> "rate", pending |-> [k \in EmailRateKeys |-> <<>>]]
    /\ mailLog = <<>>
    /\ ProviderInit0

\* auth.py:138 and 56: no candidate verified a secret presented from a1, and
\* _record_failure increments auth_fail:a1.
FailureIncr ==
    /\ authFail["a1"].n < MaxTtlCount
    /\ Len(failLog["a1"]) < MaxTtlCount
    /\ Len(authRes.pending) < MaxTtlPending
    /\ authFail' = [authFail EXCEPT !["a1"] =
                       IncrCall(@, authRes.pending, storeUp, now).counter]
    /\ failLog' = [failLog EXCEPT !["a1"] = Append(@, now)]
    /\ authRes' = [authRes EXCEPT
                       !.at = "incr",
                       !.added = IncrCall(authFail["a1"], authRes.pending, storeUp,
                                          now).counter.n
                                 - Purge(authFail["a1"], now).n,
                       !.pending = IncrCall(authFail["a1"], @, storeUp,
                                            now).pending]
    /\ UNCHANGED <<envVars, apiKeys, authCalls, rateVars, ipVars, fetchVars,
                   hookVars>>

\* auth.py:57-58: the same call passes `if count == 1`.
FailureExpire ==
    /\ authRes.pending # <<>>
    /\ authFail' = [authFail EXCEPT !["a1"] =
                       ExpireCall(@, authRes.pending, _LOCKOUT_WINDOW, storeUp,
                                  now).counter]
    /\ authRes' = [authRes EXCEPT !.at = "expire", !.pending = Tail(@)]
    /\ UNCHANGED <<envVars, apiKeys, failLog, authCalls, rateVars, ipVars,
                   fetchVars, hookVars>>

\* dispatcher.py:103 and webhooks.py:206: an event increments the email
\* counter of its route.
EmailIncr ==
    /\ \E k \in EmailRateKeys :
          /\ hookStore[k].n < MaxTtlCount
          /\ Len(hookRes.pending[k]) < MaxTtlPending
          /\ hookStore' = [hookStore EXCEPT ![k] =
                              IncrCall(@, hookRes.pending[k], storeUp, now).counter]
          /\ hookRes' = [hookRes EXCEPT !.pending[k] =
                              IncrCall(hookStore[k], @, storeUp, now).pending]
    /\ UNCHANGED <<envVars, authVars, rateVars, ipVars, fetchVars, inbox,
                   channels, events, mailLog, emailProviders, settings>>

\* dispatcher.py:104-105 and webhooks.py:207-208.
EmailExpire ==
    /\ \E k \in EmailRateKeys :
          /\ hookRes.pending[k] # <<>>
          /\ hookStore' = [hookStore EXCEPT ![k] =
                              ExpireCall(@, hookRes.pending[k], EMAIL_WINDOW,
                                         storeUp, now).counter]
          /\ hookRes' = [hookRes EXCEPT !.pending[k] = Tail(@)]
    /\ UNCHANGED <<envVars, authVars, rateVars, ipVars, fetchVars, inbox,
                   channels, events, mailLog, emailProviders, settings>>

TtlTick ==
    /\ now < TtlTicks * TtlStep
    /\ AdvanceClock(TtlStep)

NextTtl ==
    FailureIncr \/ FailureExpire \/ EmailIncr \/ EmailExpire \/ StoreFlip \/ TtlTick

SpecTtl == InitTtl /\ [][NextTtl]_vars

\* A counter that exists without a time to live, and no call left that
\* would give it one.
Immortal(counter, pending) ==
    /\ counter.n > 0
    /\ counter.exp = NoExpiry
    /\ \A i \in 1..Len(pending) : pending[i] # 1

\* C21: a failure counter or an email counter that exists in the store has
\* an expiry, or the call that created it is about to set one, whatever the
\* store does between the two calls.
C21_CountersExpire ==
    (authRes.op = "record" /\ hookRes.op = "rate") =>
        /\ ~Immortal(authFail["a1"], authRes.pending)
        /\ \A k \in EmailRateKeys : ~Immortal(hookStore[k], hookRes.pending[k])

(***************************************************************************)
(* C22: with the counter store reachable, every request that reaches the   *)
(* governor is one entry of its address's window: the count the pipeline   *)
(* reads is the number of earlier requests of the address in the trailing  *)
(* 60 seconds, and after the request the window holds one entry more,      *)
(* also for requests stamped with the same clock reading.                  *)
(***************************************************************************)
C22_OneEntryPerRequest ==
    (rateRes.op = "rate" /\ rateRes.path # HealthPath /\ rateRes.up
        /\ rateRes.at = now)
    => /\ rateRes.current_count = rateRes.prior
       /\ Cardinality(rlZset[rateRes.ip].z) = rateRes.prior + 1

(***************************************************************************)
(* C23: the address a hop is connected to is one of the addresses the      *)
(* checks of that hop resolved and found not blocked, also when the DNS    *)
(* answer changes between the checks and the connection.                   *)
(***************************************************************************)
C23_ConnectsToChecked ==
    \A i \in 1..Len(conns) :
        /\ conns[i].seen.ok
        /\ \E j \in 1..Len(conns[i].seen.addrs) :
              conns[i].seen.addrs[j] = conns[i].addr
        /\ ~_is_ip_blocked(conns[i].addr)

(***************************************************************************)
(* C24: whatever comes of resolving the inbox's email provider, an event   *)
(* that was accepted with a non-empty body gets a delivery attempt for     *)
(* every active channel of the inbox that is not an email channel and      *)
(* whose notification could be prepared.                                   *)
(***************************************************************************)
C24_ProviderFailureIsolated ==
    (hookRes.op = "received" /\ hookRes.persisted /\ Truthy(hookRes.body)) =>
        \A i \in 1..Len(channels) :
            (channels[i].is_active
             /\ LoopPass(channels[i], hookRes.body).kind = "task")
            => channels[i].id \in Delivered(hookRes.trace)

(***************************************************************************)
(*     Channel management (routers/channels.py, channels/validate.py).     *)
(*     A validator returns None or an error message; here TRUE stands for  *)
(*     None.                                                               *)
(***************************************************************************)
VALID_CHANNEL_TYPES ==
    {"email", "discord", "slack", "teams", "telegram", "ntfy", "webhook"}

ChatIdKey == <<"c", "h", "a", "t", "_", "i", "d">>
PriorityKey == <<"p", "r", "i", "o", "r", "i", "t", "y">>
CustomHeadersKey ==
    <<"c", "u", "s", "t", "o", "m", "_", "h", "e", "a", "d", "e", "r", "s">>

\* config.get(key)
Get(config, key) == DictGet(config, key, None)

\* a or b
Or(a, b) == IF Truthy(a) THEN a ELSE b

\* urlparse(value).netloc
ParsedNetloc(url, colon) ==
    IF HasScheme(url, colon) THEN UrlNetloc(After(url, colon))
    ELSE UrlNetloc(url)

\* _validate_url(value, field_name)
_validate_url(value) ==
    /\ value.kind = "str"
    /\ value.s # <<>>
    /\ urlparse(value.s).scheme \in {http, https}
    /\ ParsedNetloc(value.s, FindFirst(value.s, {":"})) # <<>>

\* isinstance(r, str) and "@" in r, for every r of a non-empty list
_validate_email(config) ==
    /\ Get(config, RecipientsKey).kind = "list"
    /\ Get(config, RecipientsKey).items # <<>>
    /\ \A i \in 1..Len(Get(config, RecipientsKey).items) :
          /\ Get(config, RecipientsKey).items[i].kind = "str"
          /\ Contains(Get(config, RecipientsKey).items[i].s, "@")

\* The destination the validator of a type looks at.
CheckedUrl(channel_type, config) ==
    CASE channel_type \in {"discord", "slack", "teams"} ->
            Or(Get(config, WebhookUrlKey), Get(config, UrlKey))
      [] channel_type = "telegram" -> Get(config, BotUrlKey)
      [] channel_type = "ntfy" -> Get(config, UrlKey)
      [] OTHER -> Or(Get(config, UrlKey), Get(config, WebhookUrlKey))

\* `pattern not in url` is tried on a string only, and as it is written.
_validate_patterned(url, pattern) ==
    /\ _validate_url(url)
    /\ url.kind = "str" => HasSub(url.s, pattern)

_validate_discord(config) ==
    _validate_patterned(CheckedUrl("discord", config), DiscordPattern)

_validate_slack(config) ==
    _validate_patterned(CheckedUrl("slack", config), SlackPattern)

_validate_teams(config) == _validate_url(CheckedUrl("teams", config))

_validate_telegram(config) ==
    /\ _validate_url(CheckedUrl("telegram", config))
    /\ Truthy(Get(config, ChatIdKey))

\* int(priority) between 1 and 5, for a priority that is given
_validate_priority(priority) ==
    CASE priority.kind = "null" -> TRUE
      [] priority.kind = "num" -> priority.n >= 1 /\ priority.n <= 5
      [] priority.kind = "bool" -> priority.b
      [] priority.kind = "str" ->
            /\ Strip(priority.s) # <<>>
            /\ \A i \in 1..Len(Strip(priority.s)) : IsDigit(Strip(priority.s)[i])
            /\ ToInt(Strip(priority.s), 10) >= 1
            /\ ToInt(Strip(priority.s), 10) <= 5
      [] OTHER -> FALSE

_validate_ntfy(config) ==
    /\ _validate_url(CheckedUrl("ntfy", config))
    /\ _validate_priority(Get(config, PriorityKey))

_validate_webhook(config) ==
    /\ _validate_url(CheckedUrl("webhook", config))
    /\ Get(config, CustomHeadersKey).kind \in {"null", "dict"}

validate_channel_config(channel_type, config) ==
    CASE channel_type = "email" -> _validate_email(config)
      [] channel_type = "discord" -> _validate_discord(config)
      [] channel_type = "slack" -> _validate_slack(config)
      [] channel_type = "teams" -> _validate_teams(config)
      [] channel_type = "telegram" -> _validate_telegram(config)
      [] channel_type = "ntfy" -> _validate_ntfy(config)
      [] channel_type = "webhook" -> _validate_webhook(config)
      [] OTHER -> FALSE

\* Lines 69-74 of create_channel: the type the row is stored with.
ResolvedType(channel_type, url) ==
    IF channel_type = "webhook" /\ url.kind = "str"
    THEN detect_channel_type(url.s)
    ELSE channel_type

\* create_channel(slug, body): the status and the rows afterwards.
create_channel(rows, an_inbox, slug, channel_type, config) ==
    IF slug # an_inbox.slug THEN [status |-> 404, rows |-> rows]
    ELSE IF channel_type \notin VALID_CHANNEL_TYPES
    THEN [status |-> 400, rows |-> rows]
    ELSE IF ~validate_channel_config(
                ResolvedType(channel_type, CheckedUrl("webhook", config)), config)
    THEN [status |-> 400, rows |-> rows]
    ELSE [status |-> 201,
          rows |-> Append(rows, NotificationChannel(
                      Len(rows) + 1,
                      ResolvedType(channel_type, CheckedUrl("webhook", config)),
                      TRUE, config))]

(***************************************************************************)
(* SpecChannel: channels of every type are created for one inbox, with the *)
(* destination under each of the keys, and an event is dispatched to them. *)
(***************************************************************************)
MaxCreated == 2

SmallDiscordUrl == lower(DiscordUrl)

ChannelUrls == {PlainUrl, DiscordUrl, SmallDiscordUrl}

\* The bodies of POST /inboxes/{slug}/channels.
ChannelConfigs ==
    { Config(key, JStr(url)) : key \in {UrlKey, WebhookUrlKey}, url \in ChannelUrls }
    \cup { JDict(<< <<UrlKey, JStr(PlainUrl)>>, <<WebhookUrlKey, JStr(SlackUrl)>> >>),
           JDict(<< <<BotUrlKey, JStr(TelegramUrl)>>, <<ChatIdKey, JNum(7)>> >>),
           JDict(<< <<BotUrlKey, JStr(TelegramUrl)>> >>),
           JDict(<< <<UrlKey, JStr(<<"f", "t", "p", ":", "/", "/", "o", "k">>)>> >>),
           Config(RecipientsKey, JList(<<JStr(MailA)>>)),
           JDict(<<>>) }

InitChannel ==
    /\ EnvInit /\ AuthInit0 /\ RateInit0 /\ IpInit0 /\ FetchInit0
    /\ inbox = WebhookInbox("contact", TRUE, "", <<>>, <<>>)
    /\ channels = <<>>
    /\ hookStore = [k \in EmailRateKeys |-> NoCounter]
    /\ events = 0
    /\ hookRes = Idle
    /\ mailLog = <<>>
    /\ ProviderInit0

\* POST /inboxes/{slug}/channels
CreateChannel ==
    /\ Len(channels) < MaxCreated
    /\ events = 0
    /\ \E slug \in {"contact", "ghost"},
          channel_type \in VALID_CHANNEL_TYPES \cup {"sms"},
          config \in ChannelConfigs :
          /\ channels' = create_channel(channels, inbox, slug, channel_type,
                                        config).rows
          /\ hookRes' = [op |-> "created",
                         status |-> create_channel(channels, inbox, slug,
                                                   channel_type, config).status]
    /\ UNCHANGED <<envVars, authVars, rateVars, ipVars, fetchVars, inbox,
                   hookStore, events, mailLog, emailProviders, settings>>

\* An event of the inbox reaches the dispatcher.
ChannelEvent ==
    /\ events = 0
    /\ channels # <<>>
    /\ events' = events + 1
    /\ DispatchWith(FormBody, TRUE, Surroundings(Calm))
    /\ UNCHANGED <<envVars, authVars, rateVars, ipVars, fetchVars, inbox,
                   channels, mailLog, emailProviders, settings>>

NextChannel == CreateChannel \/ ChannelEvent

SpecChannel == InitChannel /\ [][NextChannel]_vars

\* The deliveries of a call to one channel.
DeliveriesTo(trace, id) ==
    SelectSeq(trace, LAMBDA entry : entry.e = "deliver" /\ entry.channel = id)

\* C25: a channel that create_channel stored, and that is not an email
\* channel, is delivered to at the URL its validation checked.
C25_ValidatedUrlDelivered ==
    hookRes.op = "dispatched" =>
        \A i \in 1..Len(channels) :
            channels[i].type # "email" =>
                /\ Len(DeliveriesTo(hookRes.trace, channels[i].id)) = 1
                /\ DeliveriesTo(hookRes.trace, channels[i].id)[1].url
                      = CheckedUrl(channels[i].type, channels[i].config)

\* The recipients the active email channels of the rows list.
Listed(rows, body) == Range(Collected(Passes(rows, body), 1))

(***************************************************************************)
(* C26: when the dispatcher sends emails for an event, the recipients of   *)
(* all active email channels, given as a list or as a comma-separated      *)
(* string, are merged, and each distinct recipient is sent exactly one     *)
(* email, also when several channels list it.                              *)
(***************************************************************************)
C26_OneMailPerRecipient ==
    (hookRes.op = "dispatched" /\ Places(hookRes.trace, "email") # {}) =>
        /\ {hookRes.trace[i].to : i \in Places(hookRes.trace, "email")}
              = Listed(channels, hookRes.body)
        /\ \A i, j \in Places(hookRes.trace, "email") :
              hookRes.trace[i].to = hookRes.trace[j].to => i = j

(***************************************************************************)
(* C27: a verification that found no matching candidate adds exactly one   *)
(* to the failure counter of its address; the expiry is set by the         *)
(* increment that creates the counter and by no later one, so it never     *)
(* lies more than 300 seconds ahead, and once the address has had no       *)
(* failure for 300 seconds its counter is gone.                            *)
(***************************************************************************)
C27_FailureWindow ==
    authRes.op = "record" =>
        /\ authRes.at = "incr" => authRes.added = 1
        /\ Purge(authFail["a1"], now).exp <= now + Ms(_LOCKOUT_WINDOW)
        /\ (RecentFails(failLog["a1"], now) = <<>> /\ authRes.pending = <<>>)
              => Purge(authFail["a1"], now).n = 0

(***************************************************************************)
(* C28 (as stated): a successful verification, by a stored credential or   *)
(* by the admin secret, deletes the failure counter of the address.        *)
(***************************************************************************)
C28_Original ==
    (authRes.op = "auth" /\ authRes.status = 200)
    => authFail[authRes.ip].n = 0

(***************************************************************************)
(* C28 (amended): a successful verification, by a stored credential or by  *)
(* the admin secret, made while the counter store answers deletes the      *)
(* failure counter of the address, so the failures before it do not count  *)
(* toward a later lockout: an address is refused with 429 only when its    *)
(* counter, which holds the failures since it was last deleted, has        *)
(* reached 10.                                                             *)
(***************************************************************************)
C28_ClearOnSuccess ==
    authRes.op = "auth" =>
        /\ (authRes.status = 200 /\ authRes.up) => authFail[authRes.ip].n = 0
        /\ authRes.status = 429 => authRes.counterBefore >= _LOCKOUT_THRESHOLD
        /\ (authRes.up /\ authRes.api_key # NoSecret
            /\ authRes.counterBefore < _LOCKOUT_THRESHOLD)
              => authRes.status # 429

\* A success after nine failures deleted the counter.
C28_Witness ==
    /\ authRes.op = "auth"
    /\ authRes.status = 200
    /\ authRes.up
    /\ authRes.counterBefore = _LOCKOUT_THRESHOLD - 1
    /\ authRes.recentFails = _LOCKOUT_THRESHOLD - 1
    /\ authFail[authRes.ip].n = 0

(***************************************************************************)
(*     A management request through the whole application (main.py).       *)
(*     RateLimitMiddleware is added last and so runs first; behind it      *)
(*     comes RequestSizeLimitMiddleware, and behind that the endpoint,     *)
(*     whose dependency get_current_key runs before its body.  A           *)
(*     middleware that answers by itself does not call call_next.          *)
(***************************************************************************)
\* get_current_key was not called.
NotVerified(counters, rows) ==
    [status |-> 0, identity |-> "none", adminCompared |-> FALSE,
     candidates |-> {}, counters |-> counters, rows |-> rows]

\* The endpoint's dependency runs whatever the middlewares answered.
call_next_always(stacked, unverified, verified) == verified

\* call_next(request) of the innermost middleware: the endpoint and its
\* dependency run only for a request the middlewares passed on.
call_next(stacked, unverified, verified) ==
    IF stacked.reached THEN verified ELSE unverified

(***************************************************************************)
(* SpecStack: address a1 has 99 requests in its window and sends requests  *)
(* to a management endpoint and to the health check, with a stored secret, *)
(* the admin secret, a wrong secret or none, one clock reading apart,      *)
(* while the counter store comes and goes.                                 *)
(***************************************************************************)
MaxStackReq == 2
MaxStackFails == 1
StackTicks == 2

Burst == LIMIT - 1

InitStack ==
    /\ now = Burst + 1
    /\ storeUp = TRUE
    /\ AuthInit0 /\ IpInit0 /\ FetchInit0 /\ HookInit0
    /\ rlZset = [ip \in Addrs |->
                    IF ip = "a1"
                    THEN [z |-> 1..Burst, exp |-> Burst + Ms(WINDOW_SECONDS + 1)]
                    ELSE NoZset]
    /\ rateRes = Idle
    /\ reqLog = [ip \in Addrs |-> IF ip = "a1" THEN [i \in 1..Burst |-> i] ELSE <<>>]

\* What one request leaves: r is the answer of get_current_key, or
\* NotVerified.
Stacked(ip, path, api_key, limited, stacked, r) ==
    /\ rlZset' = limited.zsets
    /\ reqLog' = [reqLog EXCEPT ![ip] =
                     IF path # HealthPath /\ storeUp THEN Append(@, now) ELSE @]
    /\ authFail' = r.counters
    /\ apiKeys' = r.rows
    /\ failLog' = [failLog EXCEPT ![ip] =
                      IF r.status = 401 /\ r.adminCompared THEN Append(@, now) ELSE @]
    /\ rateRes' = [op |-> "stack", ip |-> ip, path |-> path, up |-> storeUp,
                   governor |-> limited.status, passed |-> limited.reached,
                   status |-> IF stacked.reached /\ r.status # 0
                              THEN r.status ELSE stacked.status,
                   verified |-> r.status # 0,
                   compared |-> r.adminCompared,
                   counters_changed |-> r.counters # authFail,
                   rows_changed |-> r.rows # apiKeys]

\* The endpoint behind the middlewares: /health has no dependency.
Endpoint(ip, path, api_key, limited, stacked) ==
    Stacked(ip, path, api_key, limited, stacked,
            call_next(stacked, NotVerified(authFail, apiKeys),
                      IF path = HealthPath THEN NotVerified(authFail, apiKeys)
                      ELSE get_current_key(ip, api_key, authFail, apiKeys,
                                           storeUp, now)))

StackRequest ==
    /\ \E ip \in {"a1"}, path \in Paths, api_key \in PresentedAuth :
          /\ (path # HealthPath /\ storeUp) =>
                Len(reqLog[ip]) < MaxStackReq + Burst
          /\ Len(failLog[ip]) < MaxStackFails
          /\ Endpoint(ip, path, api_key,
                      RateLimitDispatch(ip, path, rlZset, storeUp, now),
                      MiddlewareStack(path, NoHeader,
                          RateLimitDispatch(ip, path, rlZset, storeUp, now)))
    /\ UNCHANGED <<envVars, authRes, authCalls, ipVars, fetchVars, hookVars>>

StackTick ==
    /\ now < Burst + 1 + StackTicks
    /\ AdvanceClock(1)

NextStack == StackRequest \/ StackTick \/ StoreFlip

SpecStack == InitStack /\ [][NextStack]_vars

(***************************************************************************)
(* C29: the Rate Governor comes before the Credential Guard: a request     *)
(* whose credential is verified has passed the governor, and a request the *)
(* governor rejects with 429 or 503 is answered with that status, reaches  *)
(* no credential verification, and changes neither a failure counter nor a *)
(* credential row.                                                         *)
(***************************************************************************)
C29_GovernorFirst ==
    rateRes.op = "stack" =>
        /\ rateRes.verified => rateRes.passed
        /\ rateRes.governor \in {429, 503} =>
              /\ ~rateRes.passed
              /\ rateRes.status = rateRes.governor
              /\ ~rateRes.verified
              /\ ~rateRes.compared
              /\ ~rateRes.counters_changed
              /\ ~rateRes.rows_changed

\* The 101st request of a window presented a wrong secret and was turned
\* away by the governor.
C29_Witness ==
    /\ rateRes.op = "stack"
    /\ rateRes.up
    /\ rateRes.governor = 429
    /\ rateRes.status = 429
    /\ ~rateRes.verified
    /\ Cardinality(rlZset[rateRes.ip].z) > LIMIT

\* What the call would have left with no delivery failing.
Unfailed(rows, r) ==
    dispatch_notifications(rows, r.body, r.email_provider, r.before,
                           [r.env EXCEPT !.failing = {}, !.failure = "none"]).trace

\* The deliveries of a call, against those of the same call with no
\* delivery failing.
OneAttemptEach(rows, r, unfailed) ==
    \A i \in 1..Len(rows) :
        /\ Len(DeliveriesTo(r.trace, rows[i].id))
              = IF LoopPass(rows[i], r.body).kind = "task" THEN 1 ELSE 0
        /\ ~rows[i].is_active => DeliveriesTo(r.trace, rows[i].id) = <<>>
        /\ rows[i].id \notin r.env.failing
              => DeliveriesTo(r.trace, rows[i].id)
                    = DeliveriesTo(unfailed, rows[i].id)
        /\ (rows[i].id \in r.env.failing
            /\ DeliveriesTo(unfailed, rows[i].id) # <<>>
            /\ DeliveriesTo(unfailed, rows[i].id)[1].outcome = "delivered")
              => DeliveriesTo(r.trace, rows[i].id)[1].outcome = r.env.failure

(***************************************************************************)
(* C30: for one event the dispatcher makes exactly one delivery attempt    *)
(* for every active channel that is not an email channel and whose         *)
(* notification could be prepared, and none for any other channel, an      *)
(* inactive one in particular; a delivery that fails, times out or is      *)
(* answered with a status >= 400 is recorded as such, once, and the        *)
(* attempts to the other channels end as they would have without it.       *)
(***************************************************************************)
C30_OneAttemptEach ==
    hookRes.op = "dispatched" =>
        OneAttemptEach(channels, hookRes, Unfailed(channels, hookRes))

\* The first of five deliveries timed out and the other four went through.
C30_Witness ==
    /\ hookRes.op = "dispatched"
    /\ hookRes.env.failing = {1}
    /\ hookRes.env.failure = "timeout"
    /\ Len(channels) = 5
    /\ \A i \in 1..5 : channels[i].is_active /\ channels[i].type # "email"
    /\ \A i \in 1..5 : Len(DeliveriesTo(hookRes.trace, i)) = 1
    /\ DeliveriesTo(hookRes.trace, 1)[1].outcome = "timeout"
    /\ \A i \in 2..5 : DeliveriesTo(hookRes.trace, i)[1].outcome = "delivered"

(***************************************************************************)
(* PUT and DELETE /config/email-provider as concurrent requests.  Each     *)
(* request has its own AsyncSession, that is its own transaction: the      *)
(* DELETE statement is sent by db.execute, and the INSERT of db.add is     *)
(* flushed by db.commit together with the COMMIT.  Between the two         *)
(* awaits another request may run.  emailProviders holds the committed     *)
(* rows; hookRes.s holds the transaction of each request under way.        *)
(***************************************************************************)
MaxUpserts == 3

UpsertSessions == {"s1", "s2"}

UpsertScopes == {"contact", NoInbox}

UpsertBodies ==
    { [type |-> "resend",
       config |-> Fields(<<"api_key", "from_email">>, JStr(MailA))],
      [type |-> "sendgrid",
       config |-> Fields(<<"api_key", "from_email">>, JStr(MailB))],
      [type |-> "resend", config |-> Fields(<<"from_email">>, JStr(MailA))] }

\* A stored row with its primary key.
StoredProvider(id, inbox_id, type, config) ==
    [id |-> id, inbox_id |-> inbox_id, type |-> type, config |-> config,
     is_active |-> TRUE]

NoSession == [pc |-> "none", status |-> 0]

\* The rows a DELETE ... WHERE inbox_id = :id (or IS NULL) statement sees:
\* the committed rows of the scope.
DeleteTargets(table, inbox_id) ==
    {row.id : row \in {r \in table : r.inbox_id = inbox_id}}

\* Rows deleted by a transaction that has not committed are locked.
LockedRows(sessions, but) ==
    UNION {IF sessions[p].pc = "deleted" THEN sessions[p].gone ELSE {} :
           p \in UpsertSessions \ {but}}

\* The unique index on email_providers.inbox_id: NULLs are distinct from
\* one another, so only a row of an inbox can collide.
UniqueViolation(table, row) ==
    /\ row.inbox_id # NoInbox
    /\ \E other \in table : other.inbox_id = row.inbox_id

InitUpsert ==
    /\ EnvInit /\ AuthInit0 /\ RateInit0 /\ IpInit0 /\ FetchInit0
    /\ inbox = WebhookInbox("contact", TRUE, "", <<>>, <<>>)
    /\ channels = << SoundChannel(1, "email") >>
    /\ hookStore = [k \in EmailRateKeys |-> NoCounter]
    /\ events = 0
    /\ hookRes = [op |-> "sessions", s |-> [p \in UpsertSessions |-> NoSession]]
    /\ mailLog = <<>>
    /\ emailProviders \in
          { {},
            {StoredProvider(0, NoInbox, "resend",
                            Fields(<<"api_key", "from_email">>, JStr(MailB)))} }
    /\ settings = [gmail_token_exists |-> FALSE, gmail_sender_email |-> <<>>]

UpsertFrame ==
    UNCHANGED <<envVars, authVars, rateVars, ipVars, fetchVars, inbox,
                channels, hookStore, mailLog, settings>>

\* set_email_provider up to the await of the DELETE statement.
PutBegin ==
    /\ events < MaxUpserts
    /\ \E p \in UpsertSessions, slug \in UpsertScopes, body \in UpsertBodies :
          /\ hookRes.s[p].pc = "none"
          /\ IF ~(body.type \in VALID_PROVIDER_TYPES
                  /\ validate_provider_config(body.type, body.config))
             THEN /\ hookRes' = [hookRes EXCEPT !.s[p] =
                                    [pc |-> "none", status |-> 400]]
                  /\ events' = events + 1
             ELSE /\ DeleteTargets(emailProviders, slug)
                        \cap LockedRows(hookRes.s, p) = {}
                  /\ hookRes' = [hookRes EXCEPT !.s[p] =
                        [pc |-> "deleted", status |-> 0,
                         gone |-> DeleteTargets(emailProviders, slug),
                         add |-> {StoredProvider(events + 1, slug, body.type,
                                                 body.config)}]]
                  /\ events' = events + 1
    /\ emailProviders' = emailProviders
    /\ UpsertFrame

\* delete_email_provider up to the await of the DELETE statement.
DeleteBegin ==
    /\ events < MaxUpserts
    /\ \E p \in UpsertSessions, slug \in UpsertScopes :
          /\ hookRes.s[p].pc = "none"
          /\ DeleteTargets(emailProviders, slug)
                \cap LockedRows(hookRes.s, p) = {}
          /\ hookRes' = [hookRes EXCEPT !.s[p] =
                [pc |-> "deleted", status |-> 0,
                 gone |-> DeleteTargets(emailProviders, slug), add |-> {}]]
    /\ events' = events + 1
    /\ emailProviders' = emailProviders
    /\ UpsertFrame

\* await db.commit(): the pending INSERT is flushed, then the transaction
\* commits; an IntegrityError rolls the whole transaction back.
Committed(table, session) ==
    IF \E row \in session.add :
          UniqueViolation({r \in table : r.id \notin session.gone}, row)
    THEN [status |-> 500, table |-> table]
    ELSE [status |-> IF session.add = {} THEN 204 ELSE 200,
          table |-> {r \in table : r.id \notin session.gone}
                       \cup session.add]

UpsertCommit ==
    /\ \E p \in UpsertSessions :
          /\ hookRes.s[p].pc = "deleted"
          /\ emailProviders' = Committed(emailProviders, hookRes.s[p]).table
          /\ hookRes' = [hookRes EXCEPT !.s[p] =
                [pc |-> "none",
                 status |-> Committed(emailProviders, hookRes.s[p]).status]]
    /\ events' = events
    /\ UpsertFrame

NextUpsert == PutBegin \/ DeleteBegin \/ UpsertCommit

SpecUpsert == InitUpsert /\ [][NextUpsert]_vars

\* C31: after any interleaving of set_email_provider and
\* delete_email_provider calls every scope, an inbox or the global scope,
\* has at most one active provider row, so the scope's lookup in
\* resolve_email_provider never finds two rows.
C31_OneProviderPerScope ==
    \A scope \in UpsertScopes :
        /\ Cardinality(ActiveRows(emailProviders, scope)) <= 1
        /\ scalar_one_or_none(ActiveRows(emailProviders, scope)) # Raised

(***************************************************************************)
(* The legacy Gmail transport (app/mail.py): the module-level cache of     *)
(* the credentials object and of the service handle built from it.         *)
(* hookRes holds the cache, the token file and the outcome of the last     *)
(* send_email call; events counts the credentials objects created.         *)
(***************************************************************************)
MaxLoads == 3

NoService == [kind |-> "unbuilt"]

\* The token file written by scripts/gmail_auth.py or by a refresh.
TokenFile(present, expired, refresh_token) ==
    [present |-> present, expired |-> expired,
     refresh_token |-> refresh_token]

\* Credentials.from_authorized_user_file: a new object.
from_authorized_user_file(file, obj) ==
    [kind |-> "creds", obj |-> obj, expired |-> file.expired,
     refresh_token |-> file.refresh_token]

\* Credentials.valid: a token that has not expired.
Valid(creds) == creds # None /\ ~creds.expired

\* creds.refresh(Request()) when it succeeds: the same object, renewed.
Renewed(creds) == [creds EXCEPT !.expired = FALSE]

\* token_path.write_text(creds.to_json())
Written(creds) == TokenFile(TRUE, creds.expired, creds.refresh_token)

GotCreds(raised, creds, file, objs) ==
    [raised |-> raised, creds |-> creds, file |-> file, objs |-> objs]

\* Lines 51-59: the forced re-read of the token file.
Reread(reread, file, objs, refresh_ok) ==
    IF reread.expired /\ reread.refresh_token
    THEN IF refresh_ok
         THEN GotCreds(FALSE, Renewed(reread), Written(Renewed(reread)), objs)
         ELSE GotCreds(TRUE, reread, file, objs)
    ELSE GotCreds(~Valid(reread), reread, file, objs)

\* Lines 46-51: refresh of the cached object, then the validity test.
RefreshCached(creds, file, objs, refresh_ok) ==
    IF creds.expired /\ creds.refresh_token
    THEN IF refresh_ok
         THEN GotCreds(FALSE, Renewed(creds), Written(Renewed(creds)), objs)
         ELSE GotCreds(TRUE, creds, file, objs)
    ELSE IF Valid(creds)
    THEN GotCreds(FALSE, creds, file, objs)
    ELSE Reread(from_authorized_user_file(file, objs + 1), file, objs + 1,
                refresh_ok)

\* _get_credentials: _cached_creds, the token file and the number of
\* objects created so far go in; the same three come out, with whether
\* the call raised.  refresh_ok is the outcome of the token endpoint.
_get_credentials(_cached_creds, file, objs, refresh_ok) ==
    IF Valid(_cached_creds)
    THEN GotCreds(FALSE, _cached_creds, file, objs)
    ELSE IF ~file.present
    THEN GotCreds(TRUE, _cached_creds, file, objs)
    ELSE IF _cached_creds = None
    THEN RefreshCached(from_authorized_user_file(file, objs + 1), file,
                       objs + 1, refresh_ok)
    ELSE RefreshCached(_cached_creds, file, objs, refresh_ok)

\* build("gmail", "v1", credentials=creds): the handle keeps the object.
build(creds) == [kind |-> "service", obj |-> creds.obj]

\* _get_service after _get_credentials has returned.
_get_service(_cached_service, creds) ==
    IF _cached_service = NoService THEN build(creds) ELSE _cached_service

\* service.users().messages().send(...).execute(): the request is signed
\* with the handle's own credentials object.  An object that was replaced
\* in the cache was replaced because it had expired and could not be
\* refreshed, so a handle that still holds it cannot authorize.
Executed(service, creds) ==
    IF service.obj = creds.obj THEN "sent" ELSE "refused"

MailCache(creds, service, file, last) ==
    [op |-> "cache", creds |-> creds, service |-> service, file |-> file,
     last |-> last]

NotSent == [status |-> "none", reloaded |-> FALSE, rebuilt |-> FALSE]

InitMail ==
    /\ EnvInit /\ AuthInit0 /\ RateInit0 /\ IpInit0 /\ FetchInit0
    /\ inbox = WebhookInbox("contact", TRUE, "", <<>>, <<>>)
    /\ channels = <<>>
    /\ hookStore = [k \in EmailRateKeys |-> NoCounter]
    /\ events = 0
    /\ \E present, expired, refresh_token \in BOOLEAN :
          hookRes = MailCache(None, NoService,
                              TokenFile(present, expired, refresh_token),
                              NotSent)
    /\ mailLog = <<>>
    /\ emailProviders = {}
    /\ settings = [gmail_token_exists |-> TRUE, gmail_sender_email |-> MailB]

MailFrame ==
    UNCHANGED <<envVars, authVars, rateVars, ipVars, fetchVars, inbox,
                channels, hookStore, mailLog, emailProviders, settings>>

\* The cache after send_email with the credentials call's result.
AfterSend(cache, got) ==
    IF got.raised
    THEN MailCache(got.creds, cache.service, got.file,
                   [status |-> "raised",
                    reloaded |-> cache.creds # None
                                 /\ got.creds.obj # cache.creds.obj,
                    rebuilt |-> FALSE])
    ELSE MailCache(got.creds, _get_service(cache.service, got.creds),
                   got.file,
                   [status |-> Executed(_get_service(cache.service,
                                                     got.creds), got.creds),
                    reloaded |-> cache.creds # None
                                 /\ got.creds.obj # cache.creds.obj,
                    rebuilt |-> _get_service(cache.service, got.creds)
                                   # cache.service])

\* send_email(to, subject, body)
SendLegacy ==
    /\ events < MaxLoads
    /\ \E refresh_ok \in BOOLEAN :
          /\ hookRes' = AfterSend(hookRes,
                                  _get_credentials(hookRes.creds,
                                                   hookRes.file, events,
                                                   refresh_ok))
          /\ events' = _get_credentials(hookRes.creds, hookRes.file, events,
                                        refresh_ok).objs
    /\ MailFrame

\* Time passes the expiry of the access tokens issued so far: the one of
\* the cached object and the one stored in the token file.
TokenExpires ==
    /\ Valid(hookRes.creds)
    /\ hookRes' = [hookRes EXCEPT !.creds.expired = TRUE,
                                  !.file.expired = TRUE]
    /\ events' = events
    /\ MailFrame

\* The token file is replaced from outside (gmail_auth.py is run again)
\* or goes missing.
FileReplaced ==
    /\ \E present, refresh_token \in BOOLEAN :
          /\ TokenFile(present, FALSE, refresh_token) # hookRes.file
          /\ hookRes' = [hookRes EXCEPT
                            !.file = TokenFile(present, FALSE, refresh_token)]
    /\ events' = events
    /\ MailFrame

NextMail == SendLegacy \/ TokenExpires \/ FileReplaced

SpecMail == InitMail /\ [][NextMail]_vars

\* C32: in the legacy transport's cache the service handle is always the
\* one built from the currently cached credentials: a send during which
\* _get_credentials replaced the cached object by a reload from disk
\* rebuilds the handle, and a send that kept the object does not.
C32_ServiceFollowsCredentials ==
    /\ (hookRes.service # NoService /\ hookRes.creds # None)
          => hookRes.service.obj = hookRes.creds.obj
    /\ (hookRes.last.status \in {"sent", "refused"} /\ hookRes.last.reloaded)
          => hookRes.last.rebuilt

(***************************************************************************)
(* C33: while the counter store is unreachable the Credential Guard skips  *)
(* the lockout check and the failure recording and still verifies the      *)
(* presented secret: no attempt is refused with 429, the failure counters  *)
(* stay as they were, a correct secret (stored or admin) authenticates     *)
(* and a wrong one is refused with 401.  The Rate Governor, given the same *)
(* unreachable store, answers 503 without passing the request on.          *)
(***************************************************************************)
C33_LockoutFailsOpen ==
    [][(~storeUp /\ authRes' # authRes /\ authRes'.op = "auth") =>
          /\ authFail' = authFail
          /\ authRes'.status # 429
          /\ (\/ authRes'.api_key = admin_api_key
              \/ /\ authRes'.api_key = SecretB
                 /\ authRes'.rowsBefore["k3"].is_active)
                => (authRes'.status = 200 /\ authRes'.identity # "none")
          /\ authRes'.api_key = WrongSecret
                => (authRes'.status = 401 /\ authRes'.adminCompared)
          /\ RateLimitDispatch(authRes'.ip, "/v1/inboxes", rlZset, storeUp,
                               now).status = 503
          /\ ~RateLimitDispatch(authRes'.ip, "/v1/inboxes", rlZset, storeUp,
                                now).reached]_vars

\* An address whose counter stands at the threshold authenticated with a
\* correct secret while the store was unreachable, and the counter kept
\* its value.
C33_Witness ==
    /\ authRes.op = "auth"
    /\ ~authRes.up
    /\ authRes.status = 200
    /\ authRes.counterBefore >= _LOCKOUT_THRESHOLD
    /\ authFail[authRes.ip].n >= _LOCKOUT_THRESHOLD

\* What the email step of an event does when nothing limits it: the
\* dispatcher's sends for an inbox with active channels (the walk over a
\* body that is no dict raises before the first send), else the sends of
\* the notify-address path.
UnlimitedSends(an_inbox, rows, body, bad_mail) ==
    IF ActiveChannels(rows) # <<>>
    THEN IF IsDict(body)
         THEN _send_emails(Collected(Passes(ActiveChannels(rows), body), 1),
                           bad_mail)
         ELSE << Logged("notification dispatch failed") >>
    ELSE LegacyEmails(an_inbox.notify_email, body, bad_mail)

MaxRevokeFails == 11
RevokeTicks == 1

\* revoke_key behind its admin-scope dependency.
revoke_key(rows, key_id) ==
    IF key_id \notin DOMAIN rows
    THEN [status |-> 404, rows |-> rows]
    ELSE [status |-> 204, rows |-> [rows EXCEPT ![key_id].is_active = FALSE]]

InitRevoke ==
    /\ EnvInit /\ RateInit0 /\ IpInit0 /\ FetchInit0 /\ HookInit0
    /\ authFail = [ip \in Addrs |-> NoCounter]
    /\ apiKeys \in {[id \in {"k3"} |-> ApiKeyRow(id, prefixed, TRUE)] :
                       prefixed \in BOOLEAN}
    /\ authRes = Idle
    /\ failLog = [ip \in Addrs |-> <<>>]
    /\ authCalls = NoCalls

RevokeKey ==
    /\ \E key_id \in {"k3", "k9"} :
          /\ apiKeys' = revoke_key(apiKeys, key_id).rows
          /\ authRes' = [op |-> "revoke", key_id |-> key_id,
                         status |-> revoke_key(apiKeys, key_id).status]
    /\ UNCHANGED <<envVars, rateVars, ipVars, fetchVars, hookVars, authFail,
                   failLog, authCalls>>

RevokeAttempt ==
    /\ \E api_key \in PresentedAuth :
          /\ Authenticate("a1", api_key)
          /\ Len(failLog'["a1"]) <= MaxRevokeFails

RevokeTick ==
    /\ now < RevokeTicks * AuthStep
    /\ AdvanceClock(AuthStep)

NextRevoke == RevokeKey \/ RevokeAttempt \/ RevokeTick \/ StoreFlip

SpecRevoke == InitRevoke /\ [][NextRevoke]_vars

\* The attempt presented the secret of a credential that was revoked
\* before the attempt.
RevokedPresented(res) ==
    /\ res.op = "auth"
    /\ res.api_key = SecretB
    /\ ~res.rowsBefore["k3"].is_active

\* C35 (as stated): once revoke_key has deactivated a credential, every
\* attempt that presents its secret fails with 401 and adds one to the
\* failure counter of the client address.
C35_Original ==
    [][(authRes' # authRes /\ RevokedPresented(authRes')) =>
          /\ authRes'.status = 401
          /\ authFail'[authRes'.ip].n = authRes'.counterBefore + 1]_vars

(***************************************************************************)
(* C35 (amended): once revoke_key has deactivated a credential, presenting *)
(* its secret never authenticates again.  An attempt made while the        *)
(* address is locked out is refused with 429 and not recorded; every other *)
(* attempt fails with 401 after the comparisons, and is recorded as a      *)
(* failed attempt of the address when the counter store answers.           *)
(***************************************************************************)
C35_RevokedNeverAuthenticates ==
    [][(authRes' # authRes /\ RevokedPresented(authRes')) =>
          /\ authRes'.identity = "none"
          /\ authRes'.status \in {401, 429}
          /\ authRes'.status = 429
                <=> (authRes'.up
                     /\ authRes'.counterBefore >= _LOCKOUT_THRESHOLD)
          /\ authRes'.status = 401 => authRes'.adminCompared
          /\ (authRes'.status = 401 /\ authRes'.up)
                => authFail'[authRes'.ip].n = authRes'.counterBefore + 1
          /\ (authRes'.status = 429 \/ ~authRes'.up)
                => authFail'[authRes'.ip] = authFail[authRes'.ip]
          /\ ~apiKeys'["k3"].is_active]_vars

\* The secret that authenticated before the revocation is refused after it
\* and the refusal is counted.
C35_Witness ==
    /\ RevokedPresented(authRes)
    /\ authRes.rowsBefore["k3"].last_used_at # NeverUsed
    /\ authRes.status = 401
    /\ authRes.up
    /\ authFail[authRes.ip].n = 1

(***************************************************************************)
(* C36: a request rejected with 429 still adds an entry to the window of   *)
(* its address, so an address that keeps sending while limited stays       *)
(* limited: a request is allowed exactly when fewer than 100 earlier       *)
(* requests of the address, allowed or rejected, lie in the trailing 60    *)
(* seconds.                                                                *)
(***************************************************************************)
C36_RejectedStillCounted ==
    (rateRes.op = "rate" /\ rateRes.path # HealthPath /\ rateRes.up
        /\ rateRes.at = now)
    => /\ rateRes.status = 429 =>
             /\ now \in rlZset[rateRes.ip].z
             /\ Cardinality(rlZset[rateRes.ip].z) = rateRes.prior + 1
       /\ rateRes.status = 200 <=> rateRes.prior < LIMIT

(***************************************************************************)
(* C37: an attempt refused by the lockout check (429) and a request that   *)
(* presents no secret (401 before any store call) leave the failure        *)
(* counter of the address and its expiry as they were, so attempts made    *)
(* during a lockout do not prolong it.                                     *)
(***************************************************************************)
C37_RefusalsNotCounted ==
    [][(authRes' # authRes /\ authRes'.op = "auth"
        /\ (authRes'.status = 429 \/ authRes'.api_key = NoSecret)) =>
          /\ authFail' = authFail
          /\ failLog' = failLog
          /\ apiKeys' = apiKeys
          /\ ~authRes'.adminCompared
          /\ authRes'.api_key = NoSecret => authRes'.status = 401]_vars

\* A correct secret was refused by the lockout and the counter kept its
\* value and its expiry.
C37_Witness ==
    /\ authRes.op = "auth"
    /\ authRes.status = 429
    /\ authRes.api_key = SecretB
    /\ authRes.at = now
    /\ authFail[authRes.ip].n = authRes.counterBefore
    /\ authFail[authRes.ip].exp # NoExpiry

\* The email effects of a call, in the order they were made.
EmailsOf(trace) == SelectSeq(trace, LAMBDA entry : entry.e = "email")

\* One send per collected recipient, each with its own outcome.
EachRecipientTried(sends, recipients, bad_mail) ==
    /\ Len(sends) = Len(recipients)
    /\ \A i \in 1..Len(sends) :
          /\ sends[i].to = recipients[i]
          /\ sends[i].outcome
                = IF recipients[i] \in bad_mail THEN "failed" ELSE "sent"

TeamsUrl ==
    <<"h", "t", "t", "p", "s", ":", "/", "/", "x", ".", "W", "e", "b", "h",
      "o", "o", "k", ".", "O", "f", "f", "i", "c", "e", ".", "c", "o", "m",
      "/", "w">>

DetectUrls ==
    {PlainUrl, DiscordUrl, lower(DiscordUrl), SlackUrl, TeamsUrl, TelegramUrl,
     NtfyUrl}

StoredTypes == VALID_CHANNEL_TYPES \cup {"sms"}

\* The chat-service patterns of detect_channel_type.
KnownPatterns ==
    {DiscordPattern, SlackPattern, TeamsPattern, AzurePattern,
     TelegramPattern, NtfyPattern}

EveryKey(url) ==
    JDict(<< <<UrlKey, JStr(url)>>, <<WebhookUrlKey, JStr(url)>>,
             <<BotUrlKey, JStr(url)>>,
             <<RecipientsKey, JList(<<JStr(MailA)>>)>> >>)

InitDetect ==
    /\ EnvInit /\ AuthInit0 /\ RateInit0 /\ IpInit0 /\ FetchInit0
    /\ inbox = WebhookInbox("contact", TRUE, "", <<>>, <<>>)
    /\ \E type \in StoredTypes, url \in DetectUrls, is_active \in BOOLEAN :
          channels = << NotificationChannel(1, type, is_active,
                                            EveryKey(url)) >>
    /\ hookStore = [k \in EmailRateKeys |-> NoCounter]
    /\ events = 0
    /\ hookRes \in {[op |-> "channel", body |-> body, url |-> url] :
                       body \in {FormBody}, url \in DetectUrls}
    /\ hookRes.url = channels[1].config.items[1][2].s
    /\ mailLog = <<>>
    /\ ProviderInit0

\* One pass of the loop of dispatch_notifications.
DetectPass ==
    /\ hookRes.op = "channel"
    /\ hookRes' = [op |-> "prepared", body |-> hookRes.body,
                   url |-> hookRes.url,
                   pass |-> LoopPass(channels[1], hookRes.body)]
    /\ UNCHANGED <<envVars, authVars, rateVars, ipVars, fetchVars, inbox,
                   channels, hookStore, events, mailLog, emailProviders,
                   settings>>

NextDetect == DetectPass

SpecDetect == InitDetect /\ [][NextDetect]_vars

(***************************************************************************)
(* C39: the dispatcher replaces the type of a channel by the type detected *)
(* from its URL only when the stored type is "webhook": a channel stored   *)
(* with a chat-service type is formatted by that type's formatter whatever *)
(* its URL, and a "webhook" channel whose URL contains none of the known   *)
(* chat-service patterns is formatted by the generic formatter.            *)
(***************************************************************************)
C39_DetectionOnlyForWebhook ==
    (hookRes.op = "prepared" /\ channels[1].is_active) =>
        /\ channels[1].type \in HttpTypes
              => hookRes.pass = Task(channels[1].type, JStr(hookRes.url))
        /\ (channels[1].type = "webhook"
            /\ \A pattern \in KnownPatterns :
                  ~HasSub(lower(hookRes.url), pattern))
              => hookRes.pass = Task("webhook", JStr(hookRes.url))
        /\ (hookRes.pass.kind = "task"
            /\ hookRes.pass.type # channels[1].type)
              => /\ channels[1].type = "webhook"
                 /\ \E pattern \in KnownPatterns :
                       HasSub(lower(hookRes.url), pattern)

\* A channel stored as slack with a Discord URL was formatted as slack.
C39_Witness ==
    /\ hookRes.op = "prepared"
    /\ channels[1].is_active
    /\ channels[1].type = "slack"
    /\ hookRes.url = DiscordUrl
    /\ hookRes.pass = Task("slack", JStr(DiscordUrl))

(***************************************************************************)
(* C40: every configuration that validate_provider_config accepts for one  *)
(* of the four provider types is one _build_provider constructs without    *)
(* raising, so a row stored through set_email_provider never makes the     *)
(* provider resolution of an event raise.                                  *)
(***************************************************************************)
C40_AcceptedConfigsBuild ==
    /\ \A row \in emailProviders :
          (row.type \in VALID_PROVIDER_TYPES
           /\ validate_provider_config(row.type, row.config))
             => _build_provider(row) # Raised
    /\ hookRes.op = "received" => hookRes.provider # Raised

=============================================================================
